---- MODULE Spec2Model ----
(***************************************************************************)
(* A model of xctestrunner/test_runner/xctestrun.py: the XctestRunFactory  *)
(* (validation, cache check, working-root lifecycle, the three test-root   *)
(* pipelines, finalisation) and the XctestRun accessor, over a small       *)
(* filesystem of paths.  A path is a sequence of components; the empty     *)
(* path stands for Python's None.                                          *)
(***************************************************************************)
EXTENDS Integers, Sequences, FiniteSets, TLC

VARIABLES
  fs,          \* the filesystem: path -> kind
  docs,        \* the content of the descriptor files: path -> document
  test_bundle, \* the test bundle path the caller passes to the Factory
  xcode,       \* the toolchain version the Factory's pipeline finds (0: not asked)
  test_archs,  \* the architectures of the test executable it finds
  fac,         \* the XctestRunFactory object
  acc,         \* the XctestRun object the caller holds
  log,         \* the filesystem and signing operations of the last call
  last,        \* the last call: its name, its inputs and the exception it raised
  ncalls       \* the number of accessor calls made

vars == <<fs, docs, test_bundle, xcode, test_archs, fac, acc, log, last, ncalls>>

(***************************************************************************)
(* Bounds of the model.                                                    *)
(***************************************************************************)
MaxCalls == 2

(***************************************************************************)
(* ios_constants, as used by xctestrun.py.                                 *)
(***************************************************************************)
IPHONEOS == "iphoneos"
IPHONESIMULATOR == "iphonesimulator"
SUPPORTED_SDKS == {IPHONEOS, IPHONESIMULATOR}
XCUITEST == "xcuitest"
XCTEST == "xctest"
LOGIC_TEST == "logic_test"
SUPPORTED_TEST_TYPES == {XCUITEST, XCTEST, LOGIC_TEST}
ARM64 == "arm64"
ARM64E == "arm64e"
X86_64 == "x86_64"
NoneStr == "None"
NoPath == <<>>

TESTROOT_RELATIVE_PATH == "__TESTROOT__"
LIB_XCTEST_SWIFT_RELATIVE_PATH == <<"Developer", "usr", "lib", "libXCTestSwiftSupport.dylib">>
\* The caller's customized provisioning profile (a signing option's value).
CustomProvisionPath == <<"in", "custom.mobileprovision">>
PROFILE_KEY == "xctrunner_app_provisioning_profile"
FILE_SHARING_KEY == "xctrunner_app_enable_ui_file_sharing"

(***************************************************************************)
(* Paths (os.path) and the filesystem (os, shutil).  fs maps every         *)
(* existing path to its kind: "dir", "file" or "link" (a symbolic link to  *)
(* a directory, whose entries are visible below it).                       *)
(***************************************************************************)
Join(p, c) == Append(p, c)
Basename(p) == p[Len(p)]
Dirname(p) == SubSeq(p, 1, Len(p) - 1)
IsPrefix(p, q) == Len(p) <= Len(q) /\ SubSeq(q, 1, Len(p)) = p
Rebase(q, src, dst) == dst \o SubSeq(q, Len(src) + 1, Len(q))

Exists(f, p) == p \in DOMAIN f
IsLink(f, p) == p \in DOMAIN f /\ f[p] = "link"
\* The root directory exists and is not an entry of fs.
ParentExists(f, p) == Len(p) = 1 \/ Dirname(p) \in DOMAIN f
Under(f, p) == {q \in DOMAIN f : IsPrefix(p, q)}

RmTreeFs(f, p) == [q \in (DOMAIN f) \ Under(f, p) |-> f[q]]
MoveFs(f, src, dst) ==
  LET keep == (DOMAIN f) \ Under(f, src)
      moved == {Rebase(q, src, dst) : q \in Under(f, src)}
  IN [q \in keep \cup moved |->
        IF q \in moved THEN f[Rebase(q, dst, src)] ELSE f[q]]
CopyTreeFs(f, src, dst) ==
  LET copied == {Rebase(q, src, dst) : q \in Under(f, src)}
  IN [q \in (DOMAIN f) \cup copied |->
        IF q \in copied
        THEN (IF q = dst THEN "dir" ELSE f[Rebase(q, dst, src)])
        ELSE f[q]]
AddFs(f, p, kind) == [q \in (DOMAIN f) \cup {p} |-> IF q = p THEN kind ELSE f[q]]

(***************************************************************************)
(* Names.  os.path.splitext and str.replace work on the characters of a    *)
(* name; the names of the model are listed with their tokens.              *)
(***************************************************************************)
AppName == "App.app"
TestBundleName == "My-Tests.xctest"
NameTokens(c) ==
  CASE c = AppName -> <<"App", ".app">>
    [] c = TestBundleName -> <<"My", "-", "Tests", ".xctest">>
    [] c = "My-Tests" -> <<"My", "-", "Tests">>
    [] OTHER -> <<c>>
RECURSIVE Concat(_)
Concat(ts) == IF ts = <<>> THEN "" ELSE Head(ts) \o Concat(Tail(ts))
IsExt(t) == t \in {".app", ".xctest"}
SplitExtTokens(ts) ==
  IF Len(ts) > 1 /\ IsExt(ts[Len(ts)]) THEN SubSeq(ts, 1, Len(ts) - 1) ELSE ts
SplitExt(c) == Concat(SplitExtTokens(NameTokens(c)))
ReplaceHyphen(c) ==
  LET ts == NameTokens(c)
  IN Concat([i \in 1..Len(ts) |-> IF ts[i] = "-" THEN "_" ELSE ts[i]])

(***************************************************************************)
(* The descriptor document (plist): root key -> field map.  A field map    *)
(* keeps its fields by type: path-valued, boolean, string, string-to-      *)
(* string maps, lists of strings and lists of paths.                       *)
(***************************************************************************)
EmptyFn == [x \in {} |-> x]
EmptyFields ==
  [paths |-> EmptyFn, flags |-> EmptyFn, strs |-> EmptyFn,
   envs |-> EmptyFn, lists |-> EmptyFn, plists |-> EmptyFn]
NoDoc == EmptyFn
PutFn(fn, k, v) == [x \in (DOMAIN fn) \cup {k} |-> IF x = k THEN v ELSE fn[x]]
FieldNames(d) ==
  DOMAIN d.paths \cup DOMAIN d.flags \cup DOMAIN d.strs \cup
  DOMAIN d.envs \cup DOMAIN d.lists \cup DOMAIN d.plists

(***************************************************************************)
(* The toolchain (xcode_info_util) and the bundles (bundle_util).          *)
(***************************************************************************)
PlatformName(on_device) == IF on_device THEN "iPhoneOS" ELSE "iPhoneSimulator"
GetSdkPlatformPath(sdk) ==
  <<"Xcode", IF sdk = IPHONEOS THEN "iPhoneOS.platform"
             ELSE "iPhoneSimulator.platform">>
GetXctestToolPath(sdk) == GetSdkPlatformPath(sdk) \o <<"Developer", "Library", "Xcode", "Agents", "xctest">>
GetBundleId(p) == "id." \o Basename(p)
GetCodesignIdentity(p) == "identity." \o Basename(p)

(***************************************************************************)
(* The machine the handlers run on: the filesystem, the documents, the     *)
(* operations done by the call so far, the pending exception and the       *)
(* Factory's fields.  An operation on a machine with a pending exception   *)
(* does nothing: the exception has left the handler.                       *)
(***************************************************************************)
Entry(op, path, src, identity, ent) ==
  [op |-> op, path |-> path, src |-> src, identity |-> identity, ent |-> ent]
Raise(m, e) == [m EXCEPT !.err = e]
\* A document is the content of a file: it goes when its file goes.
Did(m, f, e) ==
  CHOOSE r \in {[m EXCEPT !.fs = g, !.log = Append(@, e),
                          !.docs = [p \in (DOMAIN @) \cap (DOMAIN g) |-> @[p]]]
                : g \in {f}} : TRUE
Ok(m) == m.err = NoneStr

\* Statement sequencing: the machine e left is computed once, and the rest
\* of the handler, Rest, runs on it unless e left an exception pending.
Then(e, Rest(_)) ==
  CHOOSE r \in {IF Ok(x) THEN Rest(x) ELSE x : x \in {e}} : TRUE

Mkdir(m, p) ==
  IF ~Ok(m) THEN m
  ELSE IF Exists(m.fs, p) \/ ~ParentExists(m.fs, p) THEN Raise(m, "OSError")
  ELSE Did(m, AddFs(m.fs, p, "dir"), Entry("mkdir", p, NoPath, "", FALSE))

Mkdtemp(m, p) ==
  IF ~Ok(m) THEN m
  ELSE Did(m, AddFs(m.fs, p, "dir"), Entry("mkdtemp", p, NoPath, "", FALSE))

RmTree(m, p) ==
  IF ~Ok(m) THEN m
  ELSE IF ~Exists(m.fs, p) \/ m.fs[p] # "dir" THEN Raise(m, "OSError")
  ELSE Did(m, RmTreeFs(m.fs, p), Entry("rmtree", p, NoPath, "", FALSE))

Remove(m, p) ==
  IF ~Ok(m) THEN m
  ELSE IF ~Exists(m.fs, p) \/ m.fs[p] = "dir" THEN Raise(m, "OSError")
  ELSE Did(m, RmTreeFs(m.fs, p), Entry("remove", p, NoPath, "", FALSE))

Move(m, src, dst) ==
  IF ~Ok(m) THEN m
  ELSE IF ~Exists(m.fs, src) \/ Exists(m.fs, dst) \/ ~ParentExists(m.fs, dst)
  THEN Raise(m, "OSError")
  ELSE Did(m, MoveFs(m.fs, src, dst), Entry("move", dst, src, "", FALSE))

CopyTree(m, src, dst) ==
  IF ~Ok(m) THEN m
  ELSE IF ~Exists(m.fs, src) \/ Exists(m.fs, dst) \/ ~ParentExists(m.fs, dst)
  THEN Raise(m, "OSError")
  ELSE Did(m, CopyTreeFs(m.fs, src, dst), Entry("copytree", dst, src, "", FALSE))

CopyFile(m, src, dst) ==
  IF ~Ok(m) THEN m
  ELSE IF ~Exists(m.fs, src) \/ ~ParentExists(m.fs, dst) THEN Raise(m, "OSError")
  ELSE Did(m, AddFs(m.fs, dst, "file"), Entry("copyfile", dst, src, "", FALSE))

\* shutil.copytree / shutil.copy of an entry of the toolchain, which is
\* installed and is not part of fs.
CopyFromToolchain(m, src, dst, kind) ==
  IF ~Ok(m) THEN m
  ELSE IF Exists(m.fs, dst) \/ ~ParentExists(m.fs, dst) THEN Raise(m, "OSError")
  ELSE Did(m, AddFs(m.fs, dst, kind),
           Entry(IF kind = "dir" THEN "copytree" ELSE "copy", dst, src, "", FALSE))

\* plist_util.Plist(path).SetPlistField(...) on a file the handler does not
\* read back (Info.plist, RunnerEntitlements.plist).
WritePlist(m, p) ==
  IF ~Ok(m) THEN m
  ELSE IF ~ParentExists(m.fs, p) THEN Raise(m, "OSError")
  ELSE Did(m, AddFs(m.fs, p, "file"), Entry("write_plist", p, NoPath, "", FALSE))

CodesignBundle(m, p, identity, ent, fault) ==
  IF ~Ok(m) THEN m
  ELSE IF fault = "codesign" \/ ~Exists(m.fs, p) THEN Raise(m, "BundleError")
  ELSE Did(m, m.fs, Entry("codesign", p, NoPath, identity, ent))

\* bundle_util.EnableUIFileSharing followed by a signature of the bundle it
\* changed.
EnableUIFileSharingAndSign(m, p, fault) ==
  IF ~Ok(m) THEN m
  ELSE IF fault = "file_sharing" THEN Raise(m, "BundleError")
  ELSE Did(Did(m, m.fs, Entry("enable_ui_file_sharing", p, NoPath, "", FALSE)),
           m.fs, Entry("codesign", p, NoPath, GetCodesignIdentity(p), TRUE))

EnableUIFileSharing(m, p, fault) ==
  IF ~Ok(m) THEN m
  ELSE IF fault = "file_sharing" THEN Raise(m, "BundleError")
  ELSE Did(m, m.fs, Entry("enable_ui_file_sharing", p, NoPath, "", FALSE))

\* Lines 449-455 without the try/except.
TryEnableUIFileSharingUncaught(m, p, fault) == EnableUIFileSharing(m, p, fault)

\* Lines 449-455: a BundleError of EnableUIFileSharing is logged, and the
\* pipeline goes on from where it was.
TryEnableUIFileSharing(m, p, fault) ==
  CHOOSE x \in {IF r.err = "BundleError" THEN m ELSE r
                : r \in {EnableUIFileSharing(m, p, fault)}} : TRUE

RemoveArchType(m, p, arch, fault) ==
  IF ~Ok(m) THEN m
  ELSE IF fault = "arch" \/ ~Exists(m.fs, p) THEN Raise(m, "BundleError")
  ELSE Did(m, m.fs, Entry("remove_arch", p, NoPath, arch, FALSE))

(***************************************************************************)
(* File relocation helpers.  In a chain of statements, each statement runs *)
(* on the machine the one before it left, and a pending exception ends the *)
(* chain.                                                                  *)
(***************************************************************************)
\* _MoveAndReplaceFile returns the new path; the caller assigns it only
\* when the call returned.
MoveAndReplacePath(src_file, target_parent_dir) ==
  Join(target_parent_dir, Basename(src_file))
MoveAndReplaceFile(m, src_file, target_parent_dir) ==
  IF ~Ok(m) THEN m
  ELSE IF src_file = NoPath THEN Raise(m, "TypeError")
  ELSE
  LET new_file_path == MoveAndReplacePath(src_file, target_parent_dir)
  IN
  Then(IF Exists(m.fs, new_file_path) THEN RmTree(m, new_file_path) ELSE m, LAMBDA m1 :
  Move(m1, src_file, new_file_path))

CopyAndSignFramework(m, src_framework, target_parent_dir, signing_identity, fault) ==
  IF ~Ok(m) THEN m ELSE
  LET target_path == Join(target_parent_dir, Basename(src_framework))
  IN
  Then(IF Exists(m.fs, target_path) THEN RmTree(m, target_path) ELSE m, LAMBDA m1 :
  Then(CopyFromToolchain(m1, src_framework, target_path, "dir"), LAMBDA m2 :
  CodesignBundle(m2, target_path, signing_identity, FALSE, fault)))

CopyAndSignLibFile(m, src_lib, target_parent_dir, signing_identity, fault) ==
  IF ~Ok(m) THEN m ELSE
  LET target_path == Join(target_parent_dir, Basename(src_lib))
  IN
  Then(IF Exists(m.fs, target_path) THEN Remove(m, target_path) ELSE m, LAMBDA m1 :
  Then(CopyFromToolchain(m1, src_lib, target_path, "file"), LAMBDA m2 :
  CodesignBundle(m2, target_path, signing_identity, FALSE, fault)))

(***************************************************************************)
(* XctestRunFactory: the pipelines.  xv is the toolchain version           *)
(* (xcode_info_util.GetXcodeVersionNumber), archs the architectures of the *)
(* test bundle's executable (bundle_util.GetFileArchTypes), fault the      *)
(* external collaborator that fails during the call, if any.               *)
(***************************************************************************)
SetTestBundleDir(m, p) ==
  IF Ok(m) THEN [m EXCEPT !.f.test_bundle_dir = p] ELSE m
SetAppUnderTestDir(m, p) ==
  IF Ok(m) THEN [m EXCEPT !.f.app_under_test_dir = p] ELSE m
SetXctestrunDict(m, d) ==
  IF Ok(m) THEN [m EXCEPT !.f.xctestrun_dict = d] ELSE m

\* bundle_util readers (GetFileArchTypes, GetDevelopmentTeam, GetBundleId,
\* GetCodesignIdentity): they read the bundle and change nothing.
ReadBundle(m, p, kind, fault) ==
  IF ~Ok(m) THEN m
  ELSE IF fault = kind \/ ~Exists(m.fs, p) THEN Raise(m, "BundleError")
  ELSE m

CopyRunnerTemplate(m, src, dst) ==
  IF ~Ok(m) THEN m
  ELSE IF Exists(m.fs, dst) \/ ~ParentExists(m.fs, dst) THEN Raise(m, "OSError")
  ELSE Did(m, AddFs(AddFs(AddFs(m.fs, dst, "dir"), Join(dst, "XCTRunner"), "file"),
                    Join(dst, "Info.plist"), "file"),
           Entry("copytree", dst, src, "", FALSE))

GetUitestRunnerAppPath(f) ==
  Join(f.test_root_dir, SplitExt(Basename(f.test_bundle_dir)) \o "-Runner" \o ".app")

GetUitestRunnerAppFromXcode(m, platform_library_path, archs, fault) ==
  LET test_bundle_name == SplitExt(Basename(m.f.test_bundle_dir))
      xctrunner_app == platform_library_path \o <<"Xcode", "Agents", "XCTRunner.app">>
      uitest_runner_app_name == test_bundle_name \o "-Runner"
      uitest_runner_app == Join(m.f.test_root_dir, uitest_runner_app_name \o ".app")
      uitest_runner_exec == Join(uitest_runner_app, uitest_runner_app_name)
      runner_app_info_plist_path == Join(uitest_runner_app, "Info.plist")
  IN
  Then(IF Exists(m.fs, uitest_runner_app) THEN RmTree(m, uitest_runner_app) ELSE m, LAMBDA m1 :
  Then(CopyRunnerTemplate(m1, xctrunner_app, uitest_runner_app), LAMBDA m2 :
  Then(Move(m2, Join(uitest_runner_app, "XCTRunner"), uitest_runner_exec), LAMBDA m3 :
  Then(IF m.f.device_arch = ARM64E
            THEN LET r == ReadBundle(m3, m.f.test_bundle_dir, "arch", fault)
                 IN IF ARM64E \notin archs
                    THEN RemoveArchType(r, uitest_runner_exec, ARM64E, fault)
                    ELSE r
            ELSE IF ~m.f.on_device
            THEN LET r == ReadBundle(m3, m.f.test_bundle_dir, "arch", fault)
                 IN IF X86_64 \in archs
                    THEN RemoveArchType(r, uitest_runner_exec, ARM64, fault)
                    ELSE r
            ELSE m3, LAMBDA m4 :
  Then(WritePlist(m4, runner_app_info_plist_path), LAMBDA m5 :
  Then(WritePlist(m5, runner_app_info_plist_path), LAMBDA m6 :
  WritePlist(m6, runner_app_info_plist_path)))))))

\* _PrepareUitestInRunerApp without the islink branch (lines 594-600).
PrepareUitestInRunerAppAlwaysMove(m, uitest_runner_app) ==
  LET runner_app_plugins_dir == Join(uitest_runner_app, "PlugIns")
  IN
  Then(Mkdir(m, runner_app_plugins_dir), LAMBDA m1 :
  Then(MoveAndReplaceFile(m1, m.f.test_bundle_dir, runner_app_plugins_dir), LAMBDA m2 :
  SetTestBundleDir(m2, MoveAndReplacePath(m.f.test_bundle_dir, runner_app_plugins_dir))))

PrepareUitestInRunerApp(m, uitest_runner_app) ==
  LET runner_app_plugins_dir == Join(uitest_runner_app, "PlugIns")
      new_test_bundle_path ==
        Join(runner_app_plugins_dir, Basename(m.f.test_bundle_dir))
  IN
  Then(Mkdir(m, runner_app_plugins_dir), LAMBDA m1 :
  IF IsLink(m1.fs, m.f.test_bundle_dir)
  THEN Then(CopyTree(m1, m.f.test_bundle_dir, new_test_bundle_path), LAMBDA m2 :
       SetTestBundleDir(m2, new_test_bundle_path))
  ELSE Then(MoveAndReplaceFile(m1, m.f.test_bundle_dir, runner_app_plugins_dir), LAMBDA m2 :
       SetTestBundleDir(m2, MoveAndReplacePath(m.f.test_bundle_dir,
                                               runner_app_plugins_dir))))

\* Lines 430-511, the device target.
XcuitestSigning(m, uitest_runner_app, platform_path, platform_library_path, xv, fault) ==
  LET runner_app_embedded_provision == Join(uitest_runner_app, "embedded.mobileprovision")
      opts == m.f.signing_options
      use_customized_provision == opts # {} /\ PROFILE_KEY \in opts
      entitlements_plist_path == Join(uitest_runner_app, "RunnerEntitlements.plist")
      test_bundle_signing_identity == GetCodesignIdentity(m.f.test_bundle_dir)
      runner_app_frameworks_dir == Join(uitest_runner_app, "Frameworks")
      private == platform_library_path \o <<"PrivateFrameworks">>
  IN
  Then(IF use_customized_provision
            THEN CopyFile(m, CustomProvisionPath, runner_app_embedded_provision)
            ELSE m, LAMBDA m1 :
  Then(IF opts # {} /\ FILE_SHARING_KEY \in opts
            THEN TryEnableUIFileSharing(m1, uitest_runner_app, fault)
            ELSE m1, LAMBDA m2 :
  Then(IF ~use_customized_provision
            THEN CopyFile(m2, Join(m.f.app_under_test_dir, "embedded.mobileprovision"),
                          runner_app_embedded_provision)
            ELSE m2, LAMBDA m3 :
  Then(ReadBundle(ReadBundle(m3, m.f.test_bundle_dir, "identity", fault),
                       m.f.test_bundle_dir, "identity", fault), LAMBDA m4 :
  Then(WritePlist(m4, entitlements_plist_path), LAMBDA m5 :
  Then(ReadBundle(m5, m.f.test_bundle_dir, "identity", fault), LAMBDA m6 :
  Then(Mkdir(m6, runner_app_frameworks_dir), LAMBDA m7 :
  Then(CopyAndSignFramework(m7,
              platform_library_path \o <<"Frameworks", "XCTest.framework">>,
              runner_app_frameworks_dir, test_bundle_signing_identity, fault), LAMBDA m8 :
  Then(CopyAndSignFramework(m8, Join(private, "XCTAutomationSupport.framework"),
              runner_app_frameworks_dir, test_bundle_signing_identity, fault), LAMBDA m9 :
  Then(IF xv >= 1100
             THEN CopyAndSignLibFile(m9, platform_path \o LIB_XCTEST_SWIFT_RELATIVE_PATH,
                    runner_app_frameworks_dir, test_bundle_signing_identity, fault)
             ELSE m9, LAMBDA m10 :
  Then(CodesignBundle(m10, uitest_runner_app, test_bundle_signing_identity,
                            TRUE, fault), LAMBDA m11 :
  Then(IF xv >= 1300
             THEN CopyAndSignFramework(m11, Join(private, "XCUIAutomation.framework"),
                    runner_app_frameworks_dir, test_bundle_signing_identity, fault)
             ELSE m11, LAMBDA m12 :
  Then(IF xv >= 1300
             THEN CopyAndSignFramework(m12, Join(private, "XCTestCore.framework"),
                    runner_app_frameworks_dir, test_bundle_signing_identity, fault)
             ELSE m12, LAMBDA m13 :
  Then(IF xv >= 1300
             THEN CopyAndSignFramework(m13, Join(private, "XCUnit.framework"),
                    runner_app_frameworks_dir, test_bundle_signing_identity, fault)
             ELSE m13, LAMBDA m14 :
  Then(IF xv >= 1430
             THEN CopyAndSignFramework(m14, Join(private, "XCTestSupport.framework"),
                    runner_app_frameworks_dir, test_bundle_signing_identity, fault)
             ELSE m14, LAMBDA m15 :
  Then(CodesignBundle(m15, m.f.test_bundle_dir, "", FALSE, fault), LAMBDA m16 :
  CodesignBundle(m16, m.f.app_under_test_dir, "", FALSE, fault)))))))))))))))))

DeveloperPath(on_device) ==
  "__PLATFORMS__/" \o PlatformName(on_device) \o ".platform/Developer"

\* The field map of lines 521-533 with the flag and the host of the
\* host-bundled one (lines 704-710) added to it.
XcuitestDictWithHostFlag(f, uitest_runner_app) ==
  [EmptyFields EXCEPT
     !.strs = [ProductModuleName |-> ReplaceHyphen(f.test_name)],
     !.flags = [IsUITestBundle |-> TRUE, IsAppHostedTestBundle |-> TRUE],
     !.paths = [TestBundlePath |-> f.test_bundle_dir,
                TestHostPath |-> f.app_under_test_dir,
                UITargetAppPath |-> f.app_under_test_dir],
     !.plists = [DependentProductPaths |-> <<f.app_under_test_dir, f.test_bundle_dir>>]]

XcuitestDict(f, uitest_runner_app) ==
  [EmptyFields EXCEPT
     !.strs = [ProductModuleName |-> ReplaceHyphen(f.test_name),
               SystemAttachmentLifetime |-> "keepNever",
               UserAttachmentLifetime |-> "keepNever"],
     !.flags = [IsUITestBundle |-> TRUE],
     !.paths = [TestBundlePath |-> f.test_bundle_dir,
                TestHostPath |-> uitest_runner_app,
                UITargetAppPath |-> f.app_under_test_dir],
     !.envs = [TestingEnvironmentVariables |->
                 [DYLD_FRAMEWORK_PATH |->
                    "__TESTROOT__:" \o DeveloperPath(f.on_device) \o "/Library/Frameworks:"
                    \o DeveloperPath(f.on_device) \o "/Library/PrivateFrameworks",
                  DYLD_LIBRARY_PATH |->
                    "__TESTROOT__:" \o DeveloperPath(f.on_device) \o "/usr/lib"]],
     !.plists = [DependentProductPaths |-> <<f.app_under_test_dir, f.test_bundle_dir>>]]

\* _GenerateTestRootForXcuitest without the "if self._on_device" of line 430.
GenerateTestRootForXcuitestAnyTarget(m, xv, archs, fault) ==
  LET platform_path == GetSdkPlatformPath(m.f.sdk)
      platform_library_path == platform_path \o <<"Developer", "Library">>
      uitest_runner_app == GetUitestRunnerAppPath(m.f)
  IN
  Then(GetUitestRunnerAppFromXcode(m, platform_library_path, archs, fault), LAMBDA m1 :
  Then(PrepareUitestInRunerApp(m1, uitest_runner_app), LAMBDA m2 :
  Then(XcuitestSigning(m2, uitest_runner_app, platform_path,
                       platform_library_path, xv, fault), LAMBDA m3 :
  SetXctestrunDict(m3, XcuitestDict(m3.f, uitest_runner_app)))))

GenerateTestRootForXcuitest(m, xv, archs, fault) ==
  LET platform_path == GetSdkPlatformPath(m.f.sdk)
      platform_library_path == platform_path \o <<"Developer", "Library">>
      uitest_runner_app == GetUitestRunnerAppPath(m.f)
  IN
  Then(GetUitestRunnerAppFromXcode(m, platform_library_path, archs, fault), LAMBDA m1 :
  Then(PrepareUitestInRunerApp(m1, uitest_runner_app), LAMBDA m2 :
  Then(IF m.f.on_device
            THEN XcuitestSigning(m2, uitest_runner_app, platform_path,
                                 platform_library_path, xv, fault)
            ELSE m2, LAMBDA m3 :
  SetXctestrunDict(m3, XcuitestDict(m3.f, uitest_runner_app)))))

\* Lines 626-684, the device target.
XctestSigning(m, xv, fault) ==
  LET platform_path == GetSdkPlatformPath(m.f.sdk)
      app_under_test_frameworks_dir == Join(m.f.app_under_test_dir, "Frameworks")
      app_under_test_signing_identity == GetCodesignIdentity(m.f.app_under_test_dir)
      public == platform_path \o <<"Developer", "Library", "Frameworks">>
      private == platform_path \o <<"Developer", "Library", "PrivateFrameworks">>
      bundle_injection_lib ==
        platform_path \o <<"Developer", "usr", "lib", "libXCTestBundleInject.dylib">>
  IN
  Then(IF ~Exists(m.fs, app_under_test_frameworks_dir)
            THEN Mkdir(m, app_under_test_frameworks_dir) ELSE m, LAMBDA m1 :
  Then(ReadBundle(m1, m.f.app_under_test_dir, "identity", fault), LAMBDA m2 :
  Then(CopyAndSignFramework(m2, Join(public, "XCTest.framework"),
              app_under_test_frameworks_dir, app_under_test_signing_identity, fault), LAMBDA m3 :
  Then(CopyAndSignLibFile(m3, bundle_injection_lib,
              app_under_test_frameworks_dir, app_under_test_signing_identity, fault), LAMBDA m4 :
  Then(IF xv >= 1100
            THEN CopyAndSignFramework(m4, Join(private, "XCTAutomationSupport.framework"),
                   app_under_test_frameworks_dir, app_under_test_signing_identity, fault)
            ELSE m4, LAMBDA m5 :
  Then(IF xv >= 1100
            THEN CopyAndSignLibFile(m5, platform_path \o LIB_XCTEST_SWIFT_RELATIVE_PATH,
                   app_under_test_frameworks_dir, app_under_test_signing_identity, fault)
            ELSE m5, LAMBDA m6 :
  Then(IF xv >= 1300
            THEN CopyAndSignFramework(m6,
                   IF xv >= 1640 THEN Join(public, "XCUIAutomation.framework")
                   ELSE Join(private, "XCUIAutomation.framework"),
                   app_under_test_frameworks_dir, app_under_test_signing_identity, fault)
            ELSE m6, LAMBDA m7 :
  Then(IF xv >= 1300
            THEN CopyAndSignFramework(m7, Join(private, "XCTestCore.framework"),
                   app_under_test_frameworks_dir, app_under_test_signing_identity, fault)
            ELSE m7, LAMBDA m8 :
  Then(IF xv >= 1300
            THEN CopyAndSignFramework(m8, Join(private, "XCUnit.framework"),
                   app_under_test_frameworks_dir, app_under_test_signing_identity, fault)
            ELSE m8, LAMBDA m9 :
  Then(IF xv >= 1430
             THEN CopyAndSignFramework(m9, Join(private, "XCTestSupport.framework"),
                    app_under_test_frameworks_dir, app_under_test_signing_identity, fault)
             ELSE m9, LAMBDA m10 :
  Then(CodesignBundle(m10, m.f.test_bundle_dir, "", FALSE, fault), LAMBDA m11 :
  CodesignBundle(m11, m.f.app_under_test_dir, "", FALSE, fault))))))))))))

XctestDict(f) ==
  LET app_under_test_name == SplitExt(Basename(f.app_under_test_dir))
      developer_path == DeveloperPath(f.on_device)
      dyld_insert_libs ==
        IF f.on_device THEN "__TESTHOST__/Frameworks/libXCTestBundleInject.dylib"
        ELSE developer_path \o "/usr/lib/libXCTestBundleInject.dylib"
  IN [EmptyFields EXCEPT
        !.strs = [ProductModuleName |-> ReplaceHyphen(f.test_name)],
        !.paths = [TestHostPath |-> f.app_under_test_dir,
                   TestBundlePath |-> f.test_bundle_dir],
        !.flags = [IsAppHostedTestBundle |-> TRUE],
        !.envs = [TestingEnvironmentVariables |->
                    [XCInjectBundleInto |-> "__TESTHOST__/" \o app_under_test_name,
                     DYLD_FRAMEWORK_PATH |->
                       "__TESTROOT__:" \o developer_path \o "/Library/Frameworks:"
                       \o developer_path \o "/Library/PrivateFrameworks",
                     DYLD_INSERT_LIBRARIES |-> dyld_insert_libs,
                     DYLD_LIBRARY_PATH |->
                       "__TESTROOT__:" \o developer_path \o "/usr/lib:"]]]

\* _GenerateTestRootForXctest with the device block (lines 626-684) run
\* before the relocation of the test bundle (lines 612-624).
GenerateTestRootForXctestSignFirst(m, xv, fault) ==
  LET app_under_test_plugins_dir == Join(m.f.app_under_test_dir, "PlugIns")
      new_test_bundle_path ==
        Join(app_under_test_plugins_dir, Basename(m.f.test_bundle_dir))
  IN
  Then(IF m.f.on_device THEN XctestSigning(m, xv, fault) ELSE m, LAMBDA m1 :
  Then(IF ~Exists(m1.fs, app_under_test_plugins_dir)
       THEN Mkdir(m1, app_under_test_plugins_dir) ELSE m1, LAMBDA m2 :
  Then(IF IsLink(m2.fs, m.f.test_bundle_dir)
       THEN Then(CopyTree(m2, m.f.test_bundle_dir, new_test_bundle_path), LAMBDA r :
            SetTestBundleDir(r, new_test_bundle_path))
       ELSE Then(MoveAndReplaceFile(m2, m.f.test_bundle_dir, app_under_test_plugins_dir),
                 LAMBDA r :
            SetTestBundleDir(r, new_test_bundle_path)), LAMBDA m3 :
  SetXctestrunDict(m3, XctestDict(m3.f)))))

GenerateTestRootForXctest(m, xv, fault) ==
  LET app_under_test_plugins_dir == Join(m.f.app_under_test_dir, "PlugIns")
      new_test_bundle_path ==
        Join(app_under_test_plugins_dir, Basename(m.f.test_bundle_dir))
  IN
  Then(IF ~Exists(m.fs, app_under_test_plugins_dir)
            THEN Mkdir(m, app_under_test_plugins_dir) ELSE m, LAMBDA m1 :
  Then(IF IsLink(m1.fs, m.f.test_bundle_dir)
      THEN Then(CopyTree(m1, m.f.test_bundle_dir, new_test_bundle_path), LAMBDA r :
           SetTestBundleDir(r, new_test_bundle_path))
      ELSE IF new_test_bundle_path # m.f.test_bundle_dir
      THEN Then(MoveAndReplaceFile(m1, m.f.test_bundle_dir, app_under_test_plugins_dir),
               LAMBDA r :
           SetTestBundleDir(r, MoveAndReplacePath(m.f.test_bundle_dir,
                                                  app_under_test_plugins_dir)))
      ELSE m1, LAMBDA m2 :
  Then(IF m.f.on_device THEN XctestSigning(m2, xv, fault) ELSE m2, LAMBDA m3 :
  SetXctestrunDict(m3, XctestDict(m3.f)))))

LogicTestDict(f) ==
  LET dyld_framework_path ==
        Concat(<<"/Xcode/", PlatformName(f.sdk = IPHONEOS),
                 ".platform/Developer/Library/Frameworks">>)
  IN [EmptyFields EXCEPT
        !.strs = [ProductModuleName |-> ReplaceHyphen(f.test_name)],
        !.paths = [TestBundlePath |-> f.test_bundle_dir,
                   TestHostPath |-> GetXctestToolPath(f.sdk)],
        !.envs = [TestingEnvironmentVariables |->
                    [DYLD_FRAMEWORK_PATH |-> dyld_framework_path,
                     DYLD_LIBRARY_PATH |-> dyld_framework_path]]]

GenerateTestRootForLogicTest(m) == SetXctestrunDict(m, LogicTestDict(m.f))

(***************************************************************************)
(* XctestRun.__init__ and XctestRunFactory.GenerateXctestrun / Close.      *)
(***************************************************************************)
NoAcc == [path |-> NoPath, root_key |-> "", test_type |-> NoneStr,
          aut_bundle_id |-> NoneStr]

XctestRunInit(m, xctestrun_file_path, test_type, aut_bundle_id) ==
  IF ~Ok(m) THEN m
  ELSE IF xctestrun_file_path \notin DOMAIN m.docs THEN Raise(m, "IOError")
  ELSE IF DOMAIN m.docs[xctestrun_file_path] = {} THEN Raise(m, "IndexError")
  ELSE [m EXCEPT !.acc =
          [path |-> xctestrun_file_path,
           root_key |-> CHOOSE k \in DOMAIN m.docs[xctestrun_file_path] : TRUE,
           test_type |-> test_type,
           aut_bundle_id |-> aut_bundle_id],
        !.f.xctestrun_obj = TRUE]

RECURSIVE ReplaceInPath(_, _, _)
ReplaceInPath(p, old, new) ==
  IF p = <<>> THEN <<>>
  ELSE IF IsPrefix(old, p)
  THEN <<new>> \o ReplaceInPath(SubSeq(p, Len(old) + 1, Len(p)), old, new)
  ELSE <<Head(p)>> \o ReplaceInPath(Tail(p), old, new)

\* str.replace(test_root_dir, '__TESTROOT__') on the text of the file: the
\* path-valued fields are the ones that can hold the test root.
ReplaceInFields(d, old, new) ==
  [d EXCEPT
     !.paths = [k \in DOMAIN @ |-> ReplaceInPath(@[k], old, new)],
     !.plists = [k \in DOMAIN @ |->
                   [i \in 1..Len(@[k]) |-> ReplaceInPath(@[k][i], old, new)]]]
ReplaceInDoc(doc, old, new) ==
  [k \in DOMAIN doc |-> ReplaceInFields(doc[k], old, new)]

WriteXctestrunFile(m, p) ==
  IF ~Ok(m) THEN m
  ELSE IF ~ParentExists(m.fs, p) THEN Raise(m, "OSError")
  ELSE LET old == IF p \in DOMAIN m.docs THEN m.docs[p] ELSE NoDoc
           m1 == Did(m, AddFs(m.fs, p, "file"),
                     Entry("write_plist", p, NoPath, "", FALSE))
       IN [m1 EXCEPT !.docs = PutFn(m1.docs, p, PutFn(old, "Runner", m.f.xctestrun_dict))]

\* The read and write of lines 380-385 without the replace of lines 382-383.
RewriteXctestrunFileAsIs(m, p) ==
  IF ~Ok(m) THEN m
  ELSE Did(m, m.fs, Entry("rewrite", p, NoPath, "", FALSE))

RewriteXctestrunFile(m, p) ==
  IF ~Ok(m) THEN m
  ELSE LET m1 == Did(m, m.fs, Entry("rewrite", p, NoPath, "", FALSE))
       IN [m1 EXCEPT !.docs[p] =
             ReplaceInDoc(@, m.f.test_root_dir, TESTROOT_RELATIVE_PATH)]

SetTestRootDir(m) ==
  IF Ok(m) THEN [m EXCEPT !.f.test_root_dir = Join(m.f.work_dir, "TEST_ROOT")] ELSE m

\* Lines 352-360.
PrepareWorkDir(m, tmp) ==
  Then(IF m.f.work_dir # NoPath
            THEN (IF ~Exists(m.fs, m.f.work_dir) THEN Mkdir(m, m.f.work_dir) ELSE m)
            ELSE LET t == Mkdtemp(m, tmp)
                 IN [t EXCEPT !.f.work_dir = tmp, !.f.delete_work_dir = TRUE], LAMBDA m1 :
  LET m2 == SetTestRootDir(m1)
  IN IF ~Exists(m2.fs, m2.f.test_root_dir)
     THEN Mkdir(m2, m2.f.test_root_dir) ELSE m2)

\* The call of a pipeline method, recorded among the operations.
PipelineOf(test_type) ==
  CASE test_type = XCUITEST -> "_GenerateTestRootForXcuitest"
    [] test_type = XCTEST -> "_GenerateTestRootForXctest"
    [] test_type = LOGIC_TEST -> "_GenerateTestRootForLogicTest"
PipelineCalls == {PipelineOf(t) : t \in SUPPORTED_TEST_TYPES}
Enter(m, test_type) ==
  IF Ok(m) THEN Did(m, m.fs, Entry(PipelineOf(test_type), NoPath, NoPath, "", FALSE))
  ELSE m

\* The dispatch of lines 366-371 without its middle branch: whatever is not
\* UI-driven takes the logic-only pipeline.
GenerateTestRootTwoWay(m, xv, archs, fault) ==
  IF m.f.test_type = XCUITEST
  THEN GenerateTestRootForXcuitest(Enter(m, XCUITEST), xv, archs, fault)
  ELSE GenerateTestRootForLogicTest(Enter(m, LOGIC_TEST))

\* Lines 366-371.
GenerateTestRoot(m, xv, archs, fault) ==
  IF m.f.test_type = XCUITEST
  THEN GenerateTestRootForXcuitest(Enter(m, XCUITEST), xv, archs, fault)
  ELSE IF m.f.test_type = XCTEST
  THEN GenerateTestRootForXctest(Enter(m, XCTEST), xv, fault)
  ELSE IF m.f.test_type = LOGIC_TEST
  THEN GenerateTestRootForLogicTest(Enter(m, LOGIC_TEST))
  ELSE m

\* Lines 351-391, the generation after a cache miss.
FreshGenerate(m, xv, archs, fault, tmp) ==
  Then(PrepareWorkDir(m, tmp), LAMBDA m1 :
  Then(IF m1.f.test_type # LOGIC_TEST
      THEN Then(MoveAndReplaceFile(m1, m1.f.app_under_test_dir, m1.f.test_root_dir),
               LAMBDA r :
           SetAppUnderTestDir(r, MoveAndReplacePath(m1.f.app_under_test_dir,
                                                    m1.f.test_root_dir)))
      ELSE m1, LAMBDA m2 :
  Then(GenerateTestRoot(m2, xv, archs, fault), LAMBDA m3 :
  LET xctestrun_file_path == Join(m3.f.test_root_dir, "test.xctestrun")
  IN
  Then(WriteXctestrunFile(m3, xctestrun_file_path), LAMBDA m4 :
  Then(RewriteXctestrunFile(m4, xctestrun_file_path), LAMBDA m5 :
  Then(IF m5.f.app_under_test_dir # NoPath
            THEN ReadBundle(m5, m5.f.app_under_test_dir, "identity", fault)
            ELSE m5, LAMBDA m6 :
  XctestRunInit(m6, xctestrun_file_path, m6.f.test_type,
                IF m6.f.app_under_test_dir # NoPath
                THEN GetBundleId(m6.f.app_under_test_dir) ELSE NoneStr)))))))

\* GenerateXctestrun without the look at the working root (lines 343-349).
GenerateXctestrunNoCacheCheck(m, xv, archs, fault, tmp) ==
  IF m.f.xctestrun_obj THEN m ELSE FreshGenerate(m, xv, archs, fault, tmp)

\* GenerateXctestrun with the look of line 347 at the test root instead of
\* at the descriptor file in it.
GenerateXctestrunTrustingTestRoot(m, xv, archs, fault, tmp) ==
  IF m.f.xctestrun_obj THEN m
  ELSE IF m.f.work_dir # NoPath
  THEN LET m1 == SetTestRootDir(m)
           xctestrun_file_path == Join(m1.f.test_root_dir, "test.xctestrun")
       IN IF Exists(m1.fs, m1.f.test_root_dir)
          THEN XctestRunInit(m1, xctestrun_file_path, NoneStr, NoneStr)
          ELSE FreshGenerate(m1, xv, archs, fault, tmp)
  ELSE FreshGenerate(m, xv, archs, fault, tmp)

GenerateXctestrun(m, xv, archs, fault, tmp) ==
  IF m.f.xctestrun_obj THEN m
  ELSE IF m.f.work_dir # NoPath
  THEN LET m1 == SetTestRootDir(m)
           xctestrun_file_path == Join(m1.f.test_root_dir, "test.xctestrun")
       IN IF Exists(m1.fs, xctestrun_file_path)
          THEN XctestRunInit(m1, xctestrun_file_path, NoneStr, NoneStr)
          ELSE FreshGenerate(m1, xv, archs, fault, tmp)
  ELSE FreshGenerate(m, xv, archs, fault, tmp)

\* Close without the ownership flag (line 395).
FactoryCloseAnyWorkDir(m) ==
  IF m.f.work_dir # NoPath /\ Exists(m.fs, m.f.work_dir)
  THEN RmTree(m, m.f.work_dir) ELSE m

FactoryClose(m) ==
  IF m.f.delete_work_dir /\ Exists(m.fs, m.f.work_dir)
  THEN RmTree(m, m.f.work_dir) ELSE m

\* _ValidateArguments without its third check (lines 412-416).
ValidateArgumentsTwoChecks(f) ==
  IF f.sdk \notin SUPPORTED_SDKS THEN "IllegalArgumentError"
  ELSE IF f.test_type \notin SUPPORTED_TEST_TYPES THEN "IllegalArgumentError"
  ELSE NoneStr

ValidateArguments(f) ==
  IF f.sdk \notin SUPPORTED_SDKS THEN "IllegalArgumentError"
  ELSE IF f.test_type \notin SUPPORTED_TEST_TYPES THEN "IllegalArgumentError"
  ELSE IF f.test_type = LOGIC_TEST /\ f.on_device THEN "IllegalArgumentError"
  ELSE NoneStr

\* __init__ with "or signing_options" added to the test of line 308.
FactoryInitSigningMeansDevice(app_under_test_dir, test_bundle_dir, sdk, device_arch, test_type, signing_options, work_dir) ==
  [app_under_test_dir |-> app_under_test_dir,
   test_bundle_dir |-> test_bundle_dir,
   test_name |-> SplitExt(Basename(test_bundle_dir)),
   sdk |-> sdk,
   device_arch |-> device_arch,
   test_type |-> test_type,
   on_device |-> (sdk = IPHONEOS \/ signing_options # {}),
   signing_options |-> signing_options,
   work_dir |-> work_dir,
   test_root_dir |-> NoPath,
   xctestrun_obj |-> FALSE,
   xctestrun_dict |-> EmptyFields,
   delete_work_dir |-> FALSE,
   arg_work_dir |-> work_dir,
   arg_signing_options |-> signing_options,
   state |-> "alive"]

FactoryInit(app_under_test_dir, test_bundle_dir, sdk, device_arch, test_type, signing_options, work_dir) ==
  [app_under_test_dir |-> app_under_test_dir,
   test_bundle_dir |-> test_bundle_dir,
   test_name |-> SplitExt(Basename(test_bundle_dir)),
   sdk |-> sdk,
   device_arch |-> device_arch,
   test_type |-> test_type,
   on_device |-> (sdk = IPHONEOS),
   signing_options |-> IF sdk = IPHONEOS THEN signing_options ELSE {},
   work_dir |-> work_dir,
   test_root_dir |-> NoPath,
   xctestrun_obj |-> FALSE,
   xctestrun_dict |-> EmptyFields,
   delete_work_dir |-> FALSE,
   arg_work_dir |-> work_dir,
   arg_signing_options |-> signing_options,
   state |-> "alive"]

(***************************************************************************)
(* XctestRun: the accessor.  a is the object, d the field map below the    *)
(* root key of its file.                                                   *)
(***************************************************************************)
HasXctestrunField(d, field) == field \in FieldNames(d)

\* GetXctestrunField: the value of the field in a set, the empty set for
\* None (the PlistError of a missing field is caught, lines 225-226).
GetXctestrunField(d, field) ==
  UNION {IF field \in DOMAIN d[c] THEN {d[c][field]} ELSE {} : c \in DOMAIN d}

\* SetXctestrunField with a string value: the field holds that value, of
\* whatever type its value was before.
WithoutField(d, field) ==
  [c \in DOMAIN d |-> [k \in (DOMAIN d[c]) \ {field} |-> d[c][k]]]
SetXctestrunField(d, field, value) ==
  [WithoutField(d, field) EXCEPT !.strs = PutFn(@, field, value)]

\* DeleteXctestrunField: PlistError when the field does not exist (lines
\* 267-268); the pair of the exception and the field map it leaves.
DeleteXctestrunFieldSilently(d, field) ==
  [err |-> NoneStr, d |-> WithoutField(d, field)]

DeleteXctestrunField(d, field) ==
  IF HasXctestrunField(d, field)
  THEN [err |-> NoneStr, d |-> WithoutField(d, field)]
  ELSE [err |-> "PlistError", d |-> d]

\* GetXctestrunField of a map-valued field, followed by the callers'
\* "if not value: value = {}".
GetEnvOrEmpty(d, field) == IF field \in DOMAIN d.envs THEN d.envs[field] ELSE EmptyFn

\* The loop of lines 74-75 replaced by an assignment of the supplied map.
MergeEnvReplacing(old, env_vars) == env_vars

MergeEnv(old, env_vars) ==
  [k \in (DOMAIN old) \cup (DOMAIN env_vars) |->
     IF k \in DOMAIN env_vars THEN env_vars[k] ELSE old[k]]

SetEnvField(d, field, value) == [d EXCEPT !.envs = PutFn(@, field, value)]
SetListField(d, field, value) == [d EXCEPT !.lists = PutFn(@, field, value)]

SetTestEnvVars(d, env_vars) ==
  IF env_vars = EmptyFn THEN d
  ELSE SetEnvField(d, "EnvironmentVariables",
                   MergeEnv(GetEnvOrEmpty(d, "EnvironmentVariables"), env_vars))

\* SetTestArgs without the early return of lines 84-85.
SetTestArgsUnguarded(d, args) == SetListField(d, "CommandLineArguments", args)

SetTestArgs(d, args) ==
  IF args = <<>> THEN d ELSE SetListField(d, "CommandLineArguments", args)

AppUnderTestEnvKey(a) ==
  IF a.test_type = XCUITEST THEN "UITargetAppEnvironmentVariables"
  ELSE "EnvironmentVariables"

SetAppUnderTestEnvVars(a, d, env_vars) ==
  IF env_vars = EmptyFn THEN d
  ELSE LET key == AppUnderTestEnvKey(a)
       IN SetEnvField(d, key, MergeEnv(GetEnvOrEmpty(d, key), env_vars))

SetAppUnderTestArgs(a, d, args) ==
  IF args = <<>> THEN d
  ELSE SetListField(d, IF a.test_type = XCUITEST
                       THEN "UITargetAppCommandLineArguments"
                       ELSE "CommandLineArguments", args)

SetTestsToRun(d, tests_to_run) ==
  IF tests_to_run = <<>> \/ tests_to_run = <<"all">> THEN d
  ELSE SetListField(d, "OnlyTestIdentifiers", tests_to_run)

SetSkipTests(d, skip_tests) ==
  IF skip_tests = <<>> THEN d ELSE SetListField(d, "SkipTestIdentifiers", skip_tests)

\* The test_type property.
\* version_util.GetVersionNumber: major * 100 + minor * 10 of "major.minor".
GetVersionNumber(v) ==
  LET parts == CASE v = "9.3" -> <<9, 3>>
                 [] v = "12.1" -> <<12, 1>>
                 [] v = "12.2" -> <<12, 2>>
  IN parts[1] * 100 + parts[2] * 10
Swift5FallbackLibsDir == "/Xcode/Toolchains/usr/lib/swift-5.0/iphonesimulator"

\* The condition of lines 167-169 without its sdk conjunct.
RunNeedsFallbackLibsOnAnySdk(xcode_version, sdk, os_version) ==
  /\ xcode_version >= 1100
  /\ os_version \notin {NoneStr, ""}
  /\ GetVersionNumber(os_version) < 1220

\* Lines 167-169.
RunNeedsFallbackLibs(xcode_version, sdk, os_version) ==
  /\ xcode_version >= 1100
  /\ sdk = IPHONESIMULATOR
  /\ os_version \notin {NoneStr, ""}
  /\ GetVersionNumber(os_version) < 1220

\* Lines 166-174: the field map Run leaves in the file.
RunFields(d, xcode_version, sdk, os_version) ==
  IF RunNeedsFallbackLibs(xcode_version, sdk, os_version)
  THEN SetTestEnvVars(d, [DYLD_FALLBACK_LIBRARY_PATH |-> Swift5FallbackLibsDir])
  ELSE d

\* The property without the cache of line 204: every read infers.
TestTypePropertyUncached(a, d) ==
  [a EXCEPT !.test_type =
     IF HasXctestrunField(d, "UITargetAppPath") THEN XCUITEST ELSE XCTEST]

TestTypeProperty(a, d) ==
  IF a.test_type = NoneStr
  THEN [a EXCEPT !.test_type =
          IF HasXctestrunField(d, "UITargetAppPath") THEN XCUITEST ELSE XCTEST]
  ELSE a

(***************************************************************************)
(* The caller's inputs on disk, and the inputs of the calls.               *)
(***************************************************************************)
WorkDir == <<"work">>
TmpDir == <<"tmp">>
InDir == <<"in">>
AppPath == <<"in", AppName>>
TestBundleOutside == <<"in", TestBundleName>>
TestBundleInside == <<"in", AppName, "PlugIns", TestBundleName>>
XcodeVersions == {1000, 1100, 1300, 1430, 1640}
ArchSets == {{X86_64}, {ARM64}, {ARM64, ARM64E}}
TestBundleInWorkDir == <<"work", TestBundleName>>
\* The test bundle named by the place it will have once the application it
\* lies in has been moved to the test root of the caller's working root.
TestBundleInMovedApp == <<"work", "TEST_ROOT", AppName, "PlugIns", TestBundleName>>
Layouts == {"dir", "link", "inside", "in_work_dir", "in_moved_app"}

BaseFs ==
  (InDir :> "dir") @@ (AppPath :> "dir") @@
  (Join(AppPath, "embedded.mobileprovision") :> "file") @@
  (CustomProvisionPath :> "file")
LayoutFs(layout) ==
  CASE layout = "dir" -> BaseFs @@ (TestBundleOutside :> "dir")
    [] layout = "link" -> BaseFs @@ (TestBundleOutside :> "link")
    [] layout \in {"inside", "in_moved_app"} ->
         BaseFs @@ (Join(AppPath, "PlugIns") :> "dir") @@ (TestBundleInside :> "dir")
    [] layout = "in_work_dir" ->
         BaseFs @@ (WorkDir :> "dir") @@ (TestBundleInWorkDir :> "dir")
TestBundleOf(layout) ==
  CASE layout = "inside" -> TestBundleInside
    [] layout = "in_moved_app" -> TestBundleInMovedApp
    [] layout = "in_work_dir" -> TestBundleInWorkDir
    [] OTHER -> TestBundleOutside

\* The (flavor, target) pairs that pass validation.
ValidPairs ==
  {<<XCUITEST, IPHONEOS>>, <<XCUITEST, IPHONESIMULATOR>>, <<XCTEST, IPHONEOS>>,
   <<XCTEST, IPHONESIMULATOR>>, <<LOGIC_TEST, IPHONESIMULATOR>>}

NoFactory ==
  [FactoryInit(AppPath, TestBundleOutside, IPHONESIMULATOR, X86_64, XCUITEST, {}, NoPath)
     EXCEPT !.state = "none"]
Last(op, err) ==
  [op |-> op, err |-> err, env |-> EmptyFn, args |-> <<>>, fault |-> NoneStr,
   hit |-> FALSE, ret |-> {}]
MachineOf(f, d, fc, a) ==
  [fs |-> f, docs |-> d, log |-> <<>>, err |-> NoneStr, f |-> fc, acc |-> a]

XcodeOfEarlierRun == CHOOSE v \in XcodeVersions : \A w \in XcodeVersions : w <= v
\* The disk an earlier Factory left behind in the caller's working root: a
\* generation of any valid flavor and target, completed or ended by a
\* failing signing step.
EarlierRun(layout, pair, fault) ==
  GenerateXctestrun(
    MachineOf(LayoutFs(layout), EmptyFn,
              FactoryInit(AppPath, TestBundleOf(layout), pair[2], X86_64, pair[1],
                          {}, WorkDir),
              NoAcc),
    XcodeOfEarlierRun, {X86_64}, fault, TmpDir)

\* A working root the caller filled itself: the descriptor file is there,
\* and its root dictionary is empty.
DescriptorPath(work_dir) == Join(Join(work_dir, "TEST_ROOT"), "test.xctestrun")
ForeignFs ==
  LayoutFs("dir") @@ (WorkDir :> "dir") @@ (Join(WorkDir, "TEST_ROOT") :> "dir")
  @@ (DescriptorPath(WorkDir) :> "file")

Init ==
  /\ \E layout \in Layouts :
       /\ test_bundle = TestBundleOf(layout)
       /\ \/ \E w \in BOOLEAN :
               /\ fs = IF w THEN LayoutFs(layout) @@ (WorkDir :> "dir")
                       ELSE LayoutFs(layout)
               /\ docs = EmptyFn
          \/ /\ layout = "dir"
             /\ fs = ForeignFs
             /\ docs = (DescriptorPath(WorkDir) :> NoDoc)
          \/ \E pair \in ValidPairs, fault \in {NoneStr, "codesign"} :
               /\ layout = "dir"
               /\ \E m \in {EarlierRun(layout, pair, fault)} :
                    fs = m.fs /\ docs = m.docs
  /\ xcode = 0
  /\ test_archs = {}
  /\ fac = NoFactory
  /\ acc = NoAcc
  /\ log = <<>>
  /\ last = Last("none", NoneStr)
  /\ ncalls = 0

Machine == MachineOf(fs, docs, fac, acc)

(***************************************************************************)
(* The Factory's operations.                                               *)
(***************************************************************************)
\* The arguments of the constructor: the architecture and the signing
\* options vary where a pipeline reads them (the UI-driven one), a missing
\* application where the flavor allows it (logic-only).
ConstructArgs ==
  {a \in [app : {NoPath, AppPath},
          sdk : SUPPORTED_SDKS \cup {"appletvos"},
          device_arch : {X86_64, ARM64E},
          test_type : SUPPORTED_TEST_TYPES \cup {"kif"},
          signing_options : SUBSET {PROFILE_KEY, FILE_SHARING_KEY},
          work_dir : {NoPath, WorkDir}] :
     /\ a.app = NoPath => a.test_type = LOGIC_TEST
     /\ a.device_arch = ARM64E => a.test_type = XCUITEST /\ a.signing_options = {}
     /\ a.signing_options \notin {{}, {PROFILE_KEY, FILE_SHARING_KEY}}
          => a.test_type = XCUITEST}

\* The environment of the Factory, fixed when the Factory is constructed and
\* recorded where its pipeline asks for it: the toolchain version (device
\* target), the architectures of the test executable (UI-driven flavor,
\* line 565 or 575).
XcodeAnswers(f) == IF f.on_device THEN XcodeVersions ELSE {0}
ArchAnswers(f) ==
  IF f.test_type = XCUITEST /\ (f.device_arch = ARM64E \/ ~f.on_device)
  THEN ArchSets ELSE {{}}

Construct ==
  /\ fac.state = "none"
  /\ \E a \in ConstructArgs :
       LET f == FactoryInit(a.app, test_bundle, a.sdk, a.device_arch, a.test_type,
                            a.signing_options, a.work_dir)
           e == ValidateArguments(f)
       IN /\ fac' = [f EXCEPT !.state = IF e = NoneStr THEN "alive" ELSE "invalid"]
          /\ last' = Last("Construct", e)
          /\ xcode' \in (IF e = NoneStr THEN XcodeAnswers(f) ELSE {0})
          /\ test_archs' \in (IF e = NoneStr THEN ArchAnswers(f) ELSE {{}})
  /\ log' = <<>>
  /\ UNCHANGED <<fs, docs, test_bundle, acc, ncalls>>

\* The collaborator that fails during one call, if any, among those the
\* call can reach.  A call that returns the cached object reaches none.
FaultAnswers(f) ==
  IF f.xctestrun_obj THEN {NoneStr}
  ELSE {NoneStr, "identity"}
       \cup (IF f.on_device THEN {"codesign"} ELSE {})
       \cup (IF f.test_type = XCUITEST THEN {"arch"} ELSE {})
       \cup (IF f.test_type = XCUITEST /\ f.on_device
                /\ FILE_SHARING_KEY \in f.signing_options
             THEN {"file_sharing"} ELSE {})

Generate ==
  /\ fac.state = "alive"
  /\ \E fault \in FaultAnswers(fac) :
       \E m \in {GenerateXctestrun(Machine, xcode, test_archs, fault, TmpDir)} :
          /\ fs' = m.fs
          /\ docs' = m.docs
          /\ fac' = m.f
          /\ acc' = m.acc
          /\ log' = m.log
          /\ last' = [Last("GenerateXctestrun", m.err) EXCEPT
                        !.fault = fault,
                        !.hit = (~fac.xctestrun_obj /\ m.f.xctestrun_obj /\ m.log = <<>>)]
  /\ UNCHANGED <<test_bundle, xcode, test_archs, ncalls>>

Close ==
  /\ fac.state = "alive"
  /\ \E m \in {FactoryClose(Machine)} :
        /\ fs' = m.fs
        /\ docs' = m.docs
        /\ log' = m.log
        /\ last' = Last("Close", m.err)
  /\ UNCHANGED <<test_bundle, xcode, test_archs, fac, acc, ncalls>>

Next ==
  \/ Construct
  \/ Generate
  \/ Close

Spec == Init /\ [][Next]_vars

(***************************************************************************)
(* The accessor's operations, called by the holder of an XctestRun object  *)
(* while its file exists.  SpecAcc starts where a Factory has returned the *)
(* object: from a fresh generation in the caller's working root, or from   *)
(* the cache hit of a second Factory on that working root.                 *)
(***************************************************************************)
EnvInputs == {EmptyFn, [A |-> "1"], [B |-> "2"], [A |-> "2"]}
ArgInputs == {<<>>, <<"x">>, <<"y">>}
TestInputs == {<<>>, <<"all">>, <<"C/m">>}
\* Field names for the field-level calls: one only the UI-driven pipeline
\* writes, one no pipeline writes.
ReadFields == {"UserAttachmentLifetime", "Marker"}
WrittenFields == {"Marker", "UITargetAppPath"}
DeletedFields == {"UITargetAppPath", "Marker"}

ReturnedBy(pair, opts, hit) ==
  LET f == FactoryInit(AppPath, TestBundleOutside, pair[2], X86_64, pair[1], opts, WorkDir)
  IN Then(GenerateXctestrun(MachineOf(LayoutFs("dir"), EmptyFn, f, NoAcc),
                           XcodeOfEarlierRun, {X86_64}, NoneStr, TmpDir), LAMBDA m1 :
     IF hit
     THEN GenerateXctestrun(MachineOf(m1.fs, m1.docs, f, NoAcc),
                            XcodeOfEarlierRun, {X86_64}, NoneStr, TmpDir)
     ELSE m1)

InitAcc ==
  /\ \E pair \in ValidPairs, hit \in BOOLEAN :
       \E m \in {ReturnedBy(pair, {}, hit)} :
          /\ fs = m.fs
          /\ docs = m.docs
          /\ fac = m.f
          /\ acc = m.acc
          /\ log = m.log
          /\ last = [Last("GenerateXctestrun", m.err) EXCEPT !.hit = hit]
          /\ xcode = IF m.f.on_device THEN XcodeOfEarlierRun ELSE 0
  /\ test_bundle = TestBundleOutside
  /\ test_archs = {X86_64}
  /\ ncalls = 0

AccFields == docs[acc.path][acc.root_key]

\* A call whose field path is not prefixed by the root key (lines 223-224,
\* 239-240, 257-258, 270-271 without self._root_key).
AccCallUnprefixed(l, d2, a2) ==
  /\ acc.path \in DOMAIN docs
  /\ ncalls < MaxCalls
  /\ last' = l
  /\ docs' = [docs EXCEPT ![acc.path] = PutFn(@, "Field", d2)]
  /\ acc' = a2
  /\ ncalls' = ncalls + 1
  /\ log' = <<>>
  /\ UNCHANGED <<fs, test_bundle, xcode, test_archs, fac>>

AccCall(l, d2, a2) ==
  /\ acc.path \in DOMAIN docs
  /\ ncalls < MaxCalls
  /\ last' = l
  /\ docs' = [docs EXCEPT ![acc.path][acc.root_key] = d2]
  /\ acc' = a2
  /\ ncalls' = ncalls + 1
  /\ log' = <<>>
  /\ UNCHANGED <<fs, test_bundle, xcode, test_archs, fac>>

CallSetTestEnvVars ==
  \E env_vars \in EnvInputs :
    AccCall([Last("SetTestEnvVars", NoneStr) EXCEPT !.env = env_vars],
            SetTestEnvVars(AccFields, env_vars), acc)

CallSetAppUnderTestEnvVars ==
  \E env_vars \in EnvInputs :
    AccCall([Last("SetAppUnderTestEnvVars", NoneStr) EXCEPT !.env = env_vars],
            SetAppUnderTestEnvVars(acc, AccFields, env_vars), acc)

CallSetTestArgs ==
  \E args \in ArgInputs :
    AccCall([Last("SetTestArgs", NoneStr) EXCEPT !.args = args],
            SetTestArgs(AccFields, args), acc)

CallSetAppUnderTestArgs ==
  \E args \in ArgInputs :
    AccCall([Last("SetAppUnderTestArgs", NoneStr) EXCEPT !.args = args],
            SetAppUnderTestArgs(acc, AccFields, args), acc)

CallSetTestsToRun ==
  \E tests \in TestInputs :
    AccCall([Last("SetTestsToRun", NoneStr) EXCEPT !.args = tests],
            SetTestsToRun(AccFields, tests), acc)

CallSetSkipTests ==
  \E tests \in TestInputs :
    AccCall([Last("SetSkipTests", NoneStr) EXCEPT !.args = tests],
            SetSkipTests(AccFields, tests), acc)

\* A read of the property: it writes nothing to the file, and is not
\* counted among the calls.
ReadTestType ==
  /\ acc.path \in DOMAIN docs
  /\ \E a \in {TestTypeProperty(acc, AccFields)} :
       /\ acc' = a
       /\ last' = [Last("test_type", NoneStr) EXCEPT !.ret = {a.test_type}]
  /\ log' = <<>>
  /\ UNCHANGED <<fs, docs, test_bundle, xcode, test_archs, fac, ncalls>>

\* Run, taken as the last call on the accessor: the toolchain answers with
\* its version, the executor with an exit code.
CallRun ==
  /\ acc.path \in DOMAIN docs
  /\ ncalls < MaxCalls
  /\ \E xcode_version \in {v \in XcodeVersions : v <= 1100}, sdk \in SUPPORTED_SDKS,
        os_version \in {NoneStr, "9.3", "12.1", "12.2"},
        result_bundle_path \in {NoPath, <<"out.xcresult">>},
        exit_code \in {"SUCCEEDED", "FAILED"} :
       \E d2 \in {RunFields(AccFields, xcode_version, sdk, os_version)} :
         /\ xcode' = xcode_version
         /\ docs' = [docs EXCEPT ![acc.path][acc.root_key] = d2]
         /\ fs' = IF xcode_version >= 1100 /\ result_bundle_path # NoPath
                     /\ Exists(fs, result_bundle_path)
                  THEN RmTreeFs(fs, result_bundle_path) ELSE fs
         /\ acc' = TestTypeProperty(acc, d2)
         /\ log' = (IF RunNeedsFallbackLibs(xcode_version, sdk, os_version)
                    THEN <<Entry("SetTestEnvVars", acc.path, NoPath, "", FALSE)>>
                    ELSE <<>>)
                   \o <<Entry("Execute", acc.path, NoPath, exit_code, FALSE)>>
         /\ last' = [Last("Run", NoneStr) EXCEPT
                       !.args = <<sdk, os_version>>, !.ret = {exit_code}]
  /\ ncalls' = MaxCalls
  /\ UNCHANGED <<test_bundle, test_archs, fac>>

CallGetXctestrunField ==
  \E field \in ReadFields :
    AccCall([Last("GetXctestrunField", NoneStr) EXCEPT
               !.args = <<field>>, !.ret = GetXctestrunField(AccFields, field)],
            AccFields, acc)

CallHasXctestrunField ==
  \E field \in ReadFields :
    AccCall([Last("HasXctestrunField", NoneStr) EXCEPT
               !.args = <<field>>, !.ret = {HasXctestrunField(AccFields, field)}],
            AccFields, acc)

CallSetXctestrunField ==
  \E field \in WrittenFields :
    AccCall([Last("SetXctestrunField", NoneStr) EXCEPT !.args = <<field>>],
            SetXctestrunField(AccFields, field, "1"), acc)

CallDeleteXctestrunField ==
  \E field \in DeletedFields :
    \E r \in {DeleteXctestrunField(AccFields, field)} :
      AccCall([Last("DeleteXctestrunField", r.err) EXCEPT !.args = <<field>>],
              r.d, acc)

NextAcc ==
  \/ CallRun
  \/ CallGetXctestrunField
  \/ CallHasXctestrunField
  \/ CallSetXctestrunField
  \/ CallDeleteXctestrunField
  \/ CallSetTestEnvVars
  \/ CallSetAppUnderTestEnvVars
  \/ CallSetTestArgs
  \/ CallSetAppUnderTestArgs
  \/ CallSetTestsToRun
  \/ CallSetSkipTests
  \/ ReadTestType

SpecAcc == InitAcc /\ [][NextAcc]_vars

(***************************************************************************)
(* _MoveAndReplaceFile on its own: the function applied, up to MaxCalls    *)
(* times, to a source and a destination directory on a small disk.         *)
(***************************************************************************)
SrcDir == <<"src">>
DstDir == <<"dst">>
MovedName == "X.app"
EntryKinds == {"absent", "file", "empty_dir", "dir"}
\* An entry named MovedName in directory d: absent, a file, an empty
\* directory, or a directory with one file in it.
EntryFs(d, kind, child) ==
  CASE kind = "absent" -> EmptyFn
    [] kind = "file" -> (Join(d, MovedName) :> "file")
    [] kind = "empty_dir" -> (Join(d, MovedName) :> "dir")
    [] kind = "dir" -> (Join(d, MovedName) :> "dir")
                       @@ (Join(Join(d, MovedName), child) :> "file")
MoveDisks ==
  {(SrcDir :> "dir") @@ (DstDir :> "dir")
   @@ EntryFs(SrcDir, ks, "new") @@ EntryFs(DstDir, kd, "old")
     : ks \in EntryKinds, kd \in EntryKinds}
MoveSources == {Join(SrcDir, MovedName), Join(DstDir, MovedName)}
MoveTargets == {SrcDir, DstDir}

InitMove ==
  /\ fs \in MoveDisks
  /\ docs = EmptyFn
  /\ test_bundle = TestBundleOutside
  /\ xcode = 0
  /\ test_archs = {}
  /\ fac = NoFactory
  /\ acc = NoAcc
  /\ log = <<>>
  /\ last = Last("none", NoneStr)
  /\ ncalls = 0

CallMoveAndReplaceFile ==
  /\ ncalls < MaxCalls
  /\ \E src_file \in MoveSources, target_parent_dir \in MoveTargets :
       \E m \in {MoveAndReplaceFile(Machine, src_file, target_parent_dir)} :
          /\ fs' = m.fs
          /\ docs' = m.docs
          /\ log' = m.log
          /\ last' = [Last("MoveAndReplaceFile", m.err) EXCEPT
                        !.args = <<src_file, target_parent_dir>>]
  /\ ncalls' = ncalls + 1
  /\ UNCHANGED <<test_bundle, xcode, test_archs, fac, acc>>

NextMove == CallMoveAndReplaceFile

SpecMove == InitMove /\ [][NextMove]_vars

(***************************************************************************)
(* Properties.  The operations of a call are read off log, the call and    *)
(* its inputs off last.                                                    *)
(***************************************************************************)
Steps == 1..Len(log)
IsSign(e) == e.op = "codesign"
\* The signature of the runner app: the one made with the entitlements file.
IsRunnerSign(e) == e.op = "codesign" /\ e.ent
\* The signature of a bundle as it is (no identity, no entitlements).
IsBundleSign(e, p) == e.op = "codesign" /\ ~e.ent /\ e.identity = "" /\ e.path = p
\* An operation that creates, moves or copies an entry at or below p.
IsPlacing(e) == e.op \in {"mkdir", "move", "copytree", "copy", "copyfile", "write_plist"}
PlacesUnder(e, p) == IsPlacing(e) /\ IsPrefix(p, e.path) /\ e.path # p
\* A copy from the toolchain into the Frameworks directory of bundle p.
IsFrameworkCopy(e, p) ==
  e.op \in {"copytree", "copy"} /\ IsPrefix(Join(p, "Frameworks"), e.path)
\* The call ran the generation to its end.
Generated == last.op = "GenerateXctestrun" /\ last.err = NoneStr /\ log # <<>>
RunnerApp == GetUitestRunnerAppPath(fac)
NewAccFields == docs'[acc'.path][acc'.root_key]
EnvOf(d, k) == IF k \in DOMAIN d.envs THEN d.envs[k] ELSE EmptyFn

\* C1: constructing a Factory with an unsupported target kind, an unsupported
\* test flavor, or the logic-only flavor on the device target raises
\* IllegalArgumentError, and the constructor has changed nothing on disk:
\* the filesystem and the documents are the ones before the call and no
\* operation was made.
BadArguments(f) ==
  \/ f.sdk \notin SUPPORTED_SDKS
  \/ f.test_type \notin SUPPORTED_TEST_TYPES
  \/ f.test_type = LOGIC_TEST /\ f.sdk = IPHONEOS
C1_InvalidArgumentsRaiseBeforeAnyMutation ==
  [][(last'.op = "Construct" /\ fac.state = "none" /\ BadArguments(fac'))
       => /\ last'.err = "IllegalArgumentError"
          /\ fac'.state = "invalid"
          /\ fs' = fs /\ docs' = docs /\ log' = <<>>]_vars
\* The logic-only flavor was asked for on the device target, with a working
\* root that does not exist: the constructor raised and the root is absent.
C1_Witness ==
  /\ last.op = "Construct" /\ last.err = "IllegalArgumentError"
  /\ fac.test_type = LOGIC_TEST /\ fac.sdk = IPHONEOS
  /\ fac.arg_work_dir = WorkDir /\ ~Exists(fs, WorkDir)

\* C2, as stated: whenever the caller-supplied working root holds a file at
\* TEST_ROOT/test.xctestrun, GenerateXctestrun returns an accessor wrapping
\* that path and runs no generation step, whatever the file's content and
\* whatever the Factory's flavor and target.
C2_CacheHitWhateverContent ==
  [][(last'.op = "GenerateXctestrun" /\ fac.arg_work_dir # NoPath
      /\ Exists(fs, DescriptorPath(fac.arg_work_dir)))
       => /\ last'.err = NoneStr
          /\ acc'.path = DescriptorPath(fac.arg_work_dir)
          /\ log' = <<>> /\ fs' = fs /\ docs' = docs]_vars
\* C2, amended: whenever the caller-supplied working root holds a file at
\* TEST_ROOT/test.xctestrun, GenerateXctestrun runs no generation step,
\* whatever the file's content and the Factory's flavor and target; it
\* returns an accessor wrapping that path when the file's root dictionary
\* has a key, and raises IndexError (no accessor) when it has none.
C2_CacheHitRunsNoStep ==
  [][(last'.op = "GenerateXctestrun" /\ fac.arg_work_dir # NoPath
      /\ Exists(fs, DescriptorPath(fac.arg_work_dir)))
       => /\ log' = <<>> /\ fs' = fs /\ docs' = docs
          /\ IF DOMAIN docs[DescriptorPath(fac.arg_work_dir)] # {}
             THEN /\ last'.err = NoneStr
                  /\ fac'.xctestrun_obj
                  /\ acc'.path = DescriptorPath(fac.arg_work_dir)
             ELSE /\ last'.err = "IndexError"
                  /\ ~fac'.xctestrun_obj
                  /\ acc' = acc]_vars
\* A Factory of the logic-only flavor has wrapped the descriptor an earlier
\* UI-driven generation left in the working root.
C2_Witness ==
  /\ last.op = "GenerateXctestrun" /\ last.hit /\ last.err = NoneStr
  /\ fac.test_type = LOGIC_TEST
  /\ acc.path = DescriptorPath(WorkDir)
  /\ "UITargetAppPath" \in DOMAIN docs[acc.path][acc.root_key].paths

\* C3: Close never deletes a caller-supplied working root (it changes
\* nothing on disk), and after Close of a Factory that was given no working
\* root the temporary directory it chose does not exist; this after any
\* sequence of GenerateXctestrun and Close calls.
C3_CloseDeletesOnlyItsOwnWorkDir ==
  [][last'.op = "Close"
       => IF fac.arg_work_dir # NoPath
          THEN fs' = fs /\ docs' = docs /\ log' = <<>>
          ELSE ~Exists(fs', TmpDir)
               /\ (fac.work_dir # NoPath => ~Exists(fs', fac.work_dir))]_vars
\* Close has just removed the temporary working root of a Factory that had
\* generated into it.
C3_Witness ==
  /\ last.op = "Close" /\ fac.arg_work_dir = NoPath /\ fac.xctestrun_obj
  /\ \E i \in Steps : log[i].op = "rmtree" /\ log[i].path = TmpDir
  /\ ~Exists(fs, TmpDir)

\* C4: after SetTestEnvVars or SetAppUnderTestEnvVars with a non-empty map,
\* the map stored at the target field is the previous map at that field
\* (empty if absent) overridden at the supplied keys and at no other key,
\* and every other field is unchanged; the target of SetTestEnvVars is
\* EnvironmentVariables.
MergedAt(old, new, k, supplied) ==
  /\ DOMAIN new.envs = DOMAIN old.envs \cup {k}
  /\ DOMAIN new.envs[k] = DOMAIN EnvOf(old, k) \cup DOMAIN supplied
  /\ \A x \in DOMAIN supplied : new.envs[k][x] = supplied[x]
  /\ \A x \in DOMAIN EnvOf(old, k) \ DOMAIN supplied : new.envs[k][x] = EnvOf(old, k)[x]
  /\ \A j \in DOMAIN old.envs \ {k} : new.envs[j] = old.envs[j]
  /\ [new EXCEPT !.envs = old.envs] = old
C4_EnvSettersMerge ==
  [][(last'.op \in {"SetTestEnvVars", "SetAppUnderTestEnvVars"}
      /\ last'.env # EmptyFn)
       => /\ \E k \in {"EnvironmentVariables", "UITargetAppEnvironmentVariables"} :
               /\ last'.op = "SetTestEnvVars" => k = "EnvironmentVariables"
               /\ MergedAt(AccFields, NewAccFields, k, last'.env)
          /\ DOMAIN docs' = DOMAIN docs
          /\ \A q \in DOMAIN docs \ {acc.path} : docs'[q] = docs[q]]_vars
\* {A:1} then {B:2} has given {A:1, B:2}.
C4_Witness ==
  /\ last.op = "SetTestEnvVars" /\ last.env = [B |-> "2"]
  /\ EnvOf(AccFields, "EnvironmentVariables") = [A |-> "1", B |-> "2"]

\* C5: a setter called with an empty input (an empty map, an empty list, or
\* ['all'] for SetTestsToRun) leaves every field of the descriptor as it
\* was, whatever was set before.
EmptyInput(l) ==
  \/ l.op \in {"SetTestEnvVars", "SetAppUnderTestEnvVars"} /\ l.env = EmptyFn
  \/ l.op \in {"SetTestArgs", "SetAppUnderTestArgs", "SetSkipTests", "SetTestsToRun"}
     /\ l.args = <<>>
  \/ l.op = "SetTestsToRun" /\ l.args = <<"all">>
C5_EmptyInputSettersChangeNothing ==
  [][EmptyInput(last') => docs' = docs /\ fs' = fs]_vars
\* SetTestArgs([]) was called on a descriptor whose CommandLineArguments is
\* ["x"], and it still is.
C5_Witness ==
  /\ last.op = "SetTestArgs" /\ last.args = <<>>
  /\ "CommandLineArguments" \in DOMAIN AccFields.lists
  /\ AccFields.lists["CommandLineArguments"] = <<"x">>

\* C6, as stated: on a descriptor holding UITargetAppPath,
\* SetAppUnderTestEnvVars with a non-empty map writes the variables under
\* UITargetAppEnvironmentVariables and leaves EnvironmentVariables
\* unchanged; on any other descriptor it writes them under
\* EnvironmentVariables; whether the flavor was given at construction or
\* not, and whether test_type was read before or not.
C6_AppEnvVarsGoToTheFlavorsField ==
  [][(last'.op = "SetAppUnderTestEnvVars" /\ last'.env # EmptyFn)
       => IF "UITargetAppPath" \in DOMAIN AccFields.paths
          THEN /\ MergedAt(AccFields, NewAccFields,
                           "UITargetAppEnvironmentVariables", last'.env)
               /\ EnvOf(NewAccFields, "EnvironmentVariables")
                    = EnvOf(AccFields, "EnvironmentVariables")
          ELSE MergedAt(AccFields, NewAccFields, "EnvironmentVariables",
                        last'.env)]_vars

\* C7, as stated: in a UI-driven generation on the device target, at every
\* toolchain version, every copy of a framework or library into the runner
\* app's Frameworks directory precedes the signature of the runner app with
\* the entitlements file.
C7_FrameworkCopiesPrecedeRunnerSignature ==
  (last.op = "GenerateXctestrun" /\ fac.test_type = XCUITEST /\ fac.on_device)
    => \A i \in Steps, j \in Steps :
         (IsRunnerSign(log[i]) /\ IsFrameworkCopy(log[j], log[i].path)) => j < i

\* C8: in a UI-driven generation on the device target the runner app is
\* signed at most once, with the entitlements file and the identity of the
\* test bundle, and by no other operation; the provisioning-profile copy and
\* the file-sharing relaxation precede that signature; the test bundle is
\* signed after the runner app and the application after the test bundle;
\* and a generation that ran to its end made each of the three signatures
\* exactly once.
C8_UitestSignatureOrder ==
  (last.op = "GenerateXctestrun" /\ fac.test_type = XCUITEST /\ fac.on_device)
    => LET R == {i \in Steps : IsRunnerSign(log[i])}
           T == {i \in Steps : IsBundleSign(log[i], fac.test_bundle_dir)}
           A == {i \in Steps : IsBundleSign(log[i], fac.app_under_test_dir)}
       IN /\ Cardinality(R) <= 1
          /\ \A i \in Steps : (IsSign(log[i]) /\ log[i].path = RunnerApp) => i \in R
          /\ \A r \in R : /\ log[r].path = RunnerApp
                          /\ log[r].identity
                               = GetCodesignIdentity(fac.test_bundle_dir)
          /\ \A i \in Steps :
               log[i].op \in {"copyfile", "enable_ui_file_sharing"}
                 => /\ IsPrefix(RunnerApp, log[i].path)
                    /\ \A r \in R : i < r
          /\ \A t \in T : \E r \in R : r < t
          /\ \A a \in A : \E t \in T : t < a
          /\ Generated => Cardinality(R) = 1 /\ Cardinality(T) = 1
                          /\ Cardinality(A) = 1
\* A device UI-driven generation with both signing options ran to its end:
\* the custom profile was copied and the file sharing enabled.
C8_Witness ==
  /\ Generated /\ fac.test_type = XCUITEST /\ fac.on_device
  /\ fac.signing_options = {PROFILE_KEY, FILE_SHARING_KEY}
  /\ \E i \in Steps : log[i].op = "enable_ui_file_sharing"
  /\ \E i \in Steps : log[i].op = "copyfile" /\ log[i].src = CustomProvisionPath
  /\ \E i \in Steps : IsRunnerSign(log[i])

\* C9: in a host-bundled generation on the device target the test bundle is
\* placed in the application's PlugIns directory before any framework or
\* library is copied into the application's Frameworks directory, every
\* such copy and its signature precede the signature of the test bundle,
\* the application is signed after the test bundle, and nothing is created,
\* moved or copied under the application after its signature; a generation
\* that ran to its end relocated the bundle and signed both.  A bundle
\* that lies in the application's PlugIns directory is relocated by the move
\* of the application.
C9_XctestSignatureOrder ==
  (last.op = "GenerateXctestrun" /\ fac.test_type = XCTEST /\ fac.on_device)
    => LET app == fac.app_under_test_dir
           M == {i \in Steps : /\ log[i].op \in {"move", "copytree"}
                               /\ \/ log[i].src = test_bundle
                                  \/ /\ test_bundle = fac.test_bundle_dir
                                     /\ IsPrefix(log[i].path, test_bundle)}
           F == {i \in Steps : IsFrameworkCopy(log[i], app)
                               \/ (IsSign(log[i]) /\ log[i].identity # "")}
           T == {i \in Steps : IsBundleSign(log[i], fac.test_bundle_dir)}
           A == {i \in Steps : IsBundleSign(log[i], app)}
       IN /\ \A i \in M : Exists(fs, Join(Join(app, "PlugIns"), Basename(test_bundle)))
          /\ \A i \in M : log[i].src = test_bundle
               => log[i].path = Join(Join(app, "PlugIns"), Basename(test_bundle))
          /\ \A f \in F : \E i \in M : i < f
          /\ \A f \in F, t \in T : f < t
          /\ \A t \in T : \E i \in M : i < t
          /\ \A a \in A : \E t \in T : t < a
          /\ \A a \in A, i \in Steps : PlacesUnder(log[i], app) => i < a
          /\ Generated => Cardinality(M) = 1 /\ Cardinality(T) = 1
                          /\ Cardinality(A) = 1
\* A device host-bundled generation ran to its end with a toolchain that
\* has every gated framework.
C9_Witness ==
  /\ Generated /\ fac.test_type = XCTEST /\ fac.on_device /\ xcode >= 1430
  /\ \E i \in Steps :
       IsFrameworkCopy(log[i], fac.app_under_test_dir)
       /\ Basename(log[i].path) = "XCTestSupport.framework"
  /\ \E i \in Steps : IsBundleSign(log[i], fac.app_under_test_dir)

\* C10: a generation for the simulator target makes no signing operation in
\* any flavor, whatever signing options were passed: no signature, no copy
\* into a Frameworks directory, no entitlements file, no profile copy, no
\* file-sharing relaxation; a UI-driven or host-bundled generation for the
\* device target that ran to its end signed the test bundle and the
\* application.
IsSigningOperation(e) ==
  \/ e.op \in {"codesign", "copyfile", "enable_ui_file_sharing"}
  \/ e.op \in {"copytree", "copy", "mkdir"} /\ "Frameworks" \in {e.path[i] : i \in 1..Len(e.path)}
  \/ e.op = "write_plist" /\ Basename(e.path) = "RunnerEntitlements.plist"
C10_SigningDependsOnTargetOnly ==
  last.op = "GenerateXctestrun"
    => /\ fac.sdk = IPHONESIMULATOR => \A i \in Steps : ~IsSigningOperation(log[i])
       /\ (fac.sdk = IPHONEOS /\ fac.test_type \in {XCUITEST, XCTEST} /\ Generated)
            => /\ \E i \in Steps : IsBundleSign(log[i], fac.test_bundle_dir)
               /\ \E i \in Steps : IsBundleSign(log[i], fac.app_under_test_dir)
\* A UI-driven generation for the simulator, constructed with signing
\* options, ran to its end.
C10_Witness ==
  /\ Generated /\ fac.sdk = IPHONESIMULATOR /\ fac.test_type = XCUITEST
  /\ fac.arg_signing_options = {PROFILE_KEY, FILE_SHARING_KEY}
  /\ \E i \in Steps : log[i].op = "move" /\ log[i].src = test_bundle

\* C11, as stated: _MoveAndReplaceFile called again with the same arguments
\* after a call that succeeded, or called on a source that already is
\* target_parent_dir/basename, returns normally with the entry present at
\* the destination and the filesystem as the first call left it: the moved
\* entry is never lost.
C11_MoveAndReplaceIdempotentUnderRetry ==
  [][(last'.op = "MoveAndReplaceFile"
      /\ \/ last.op = "MoveAndReplaceFile" /\ last.err = NoneStr
            /\ last'.args = last.args
         \/ last'.args[1] = MoveAndReplacePath(last'.args[1], last'.args[2])
            /\ Exists(fs, last'.args[1]))
       => /\ last'.err = NoneStr
          /\ Exists(fs', MoveAndReplacePath(last'.args[1], last'.args[2]))
          /\ fs' = fs]_vars

\* The path-valued fields of a field map, and the paths that hold q as a
\* run of consecutive components.
PathValues(d) ==
  {d.paths[k] : k \in DOMAIN d.paths}
  \cup UNION {{d.plists[k][i] : i \in 1..Len(d.plists[k])} : k \in DOMAIN d.plists}
Contains(p, q) ==
  \E i \in 1..(Len(p) - Len(q) + 1) : SubSeq(p, i, i + Len(q) - 1) = q

C13_ExactlyOneRootKey ==
  /\ acc.path \in DOMAIN docs
  /\ DOMAIN docs[acc.path] = {acc.root_key}
  /\ acc.root_key = "Runner"
\* A field was set and then deleted again.
C13_Witness ==
  /\ last.op = "DeleteXctestrunField" /\ last.err = NoneStr
  /\ last.args = <<"Marker">> /\ ncalls = MaxCalls
  /\ Cardinality(DOMAIN docs[acc.path]) = 1

\* C14: GetXctestrunField on an absent field returns None and
\* HasXctestrunField returns false, neither raises and neither changes the
\* document; HasXctestrunField is true exactly when the field is present
\* and GetXctestrunField then returns its value; DeleteXctestrunField on an
\* absent field raises PlistError and leaves the document unchanged, and on
\* a present field removes that field only.
C14_ReadsAreSoftDeleteIsStrict ==
  [][LET field == last'.args[1]
         present == HasXctestrunField(AccFields, field)
     IN /\ last'.op \in {"GetXctestrunField", "HasXctestrunField"}
             => /\ last'.err = NoneStr
                /\ docs' = docs
        /\ last'.op = "GetXctestrunField"
             => /\ present <=> last'.ret # {}
                /\ \A c \in DOMAIN AccFields :
                     field \in DOMAIN AccFields[c] => last'.ret = {AccFields[c][field]}
        /\ last'.op = "HasXctestrunField" => last'.ret = {present}
        /\ last'.op = "DeleteXctestrunField"
             => IF present
                THEN /\ last'.err = NoneStr
                     /\ ~HasXctestrunField(NewAccFields, field)
                     /\ FieldNames(NewAccFields) = FieldNames(AccFields) \ {field}
                ELSE /\ last'.err = "PlistError"
                     /\ docs' = docs]_vars
\* DeleteXctestrunField was called on a field the document does not have,
\* and raised.
C14_Witness ==
  /\ last.op = "DeleteXctestrunField" /\ last.err = "PlistError"
  /\ ~HasXctestrunField(AccFields, last.args[1])

\* C15: a GenerateXctestrun call that misses the cache calls at most one
\* pipeline method, the one of the configured flavor, and exactly one when
\* it runs to its end; at that call the working root and the test root
\* have been made and the descriptor file has not been written yet; for
\* the UI-driven and host-bundled flavors the application was moved, not
\* copied, to <test root>/<its name> before the call and its original path
\* is gone; the logic-only flavor moves, copies and signs nothing.
IsPipelineCall(e) == e.op \in PipelineCalls
IsMoveCopyOrSign(e) ==
  e.op \in {"move", "copytree", "copy", "copyfile", "codesign",
            "enable_ui_file_sharing", "remove_arch"}
InFile(p) == ReplaceInPath(p, fac.test_root_dir, TESTROOT_RELATIVE_PATH)
FlagSet(d, k) == k \in DOMAIN d.flags /\ d.flags[k]
C16_FieldMapIdentifiesFlavor ==
  Generated
    => LET d == AccFields
           app == fac.app_under_test_dir
       IN /\ ~(FlagSet(d, "IsUITestBundle") /\ FlagSet(d, "IsAppHostedTestBundle"))
          /\ fac.test_type = XCUITEST
               => /\ FlagSet(d, "IsUITestBundle")
                  /\ ~HasXctestrunField(d, "IsAppHostedTestBundle")
                  /\ d.paths["UITargetAppPath"] = InFile(app)
                  /\ app = Join(fac.test_root_dir, Basename(AppPath))
                  /\ Exists(fs, app)
                  /\ d.paths["TestHostPath"]
                       = InFile(Join(fac.test_root_dir, fac.test_name \o "-Runner.app"))
                  /\ Exists(fs, Join(fac.test_root_dir, fac.test_name \o "-Runner.app"))
                  /\ fac.test_name = SplitExt(Basename(test_bundle))
          /\ fac.test_type = XCTEST
               => /\ FlagSet(d, "IsAppHostedTestBundle")
                  /\ ~HasXctestrunField(d, "IsUITestBundle")
                  /\ ~HasXctestrunField(d, "UITargetAppPath")
                  /\ d.paths["TestHostPath"] = InFile(app)
                  /\ app = Join(fac.test_root_dir, Basename(AppPath))
                  /\ Exists(fs, app)
                  /\ d.envs["TestingEnvironmentVariables"]["XCInjectBundleInto"]
                       = "__TESTHOST__/" \o SplitExt(Basename(AppPath))
          /\ fac.test_type = LOGIC_TEST
               => /\ ~HasXctestrunField(d, "UITargetAppPath")
                  /\ ~HasXctestrunField(d, "IsUITestBundle")
                  /\ ~HasXctestrunField(d, "IsAppHostedTestBundle")
                  /\ d.paths["TestHostPath"] = GetXctestToolPath(fac.sdk)
\* A UI-driven generation on the device ran to its end.
C16_Witness ==
  /\ Generated /\ fac.test_type = XCUITEST /\ fac.on_device
  /\ FlagSet(AccFields, "IsUITestBundle")

\* C17, as stated: the accessor GenerateXctestrun returns, from a fresh
\* generation or from a cache hit, carries an application bundle identifier
\* (the one Run hands to the executor) exactly when the Factory's flavor is
\* UI-driven or host-bundled; a logic-only Factory's accessor carries none,
\* also when the Factory was given an application path.
C17_BundleIdExactlyForAppFlavors ==
  (last.op = "GenerateXctestrun" /\ last.err = NoneStr)
    => (acc.aut_bundle_id # NoneStr <=> fac.test_type \in {XCUITEST, XCTEST})

\* C18, as stated: in a UI-driven generation the two rules that strip an
\* architecture from the runner executable apply independently.  Rule (b):
\* on the simulator target, when the test executable has x86_64, arm64 is
\* stripped, whatever the configured device architecture, arm64e included.
\* Rule (a): when the configured architecture is arm64e and the test
\* executable lacks arm64e, arm64e is stripped, on every target.
Strips(arch) ==
  \E i \in Steps : log[i].op = "remove_arch" /\ log[i].identity = arch
C18_ArchRulesAreIndependent ==
  (Generated /\ fac.test_type = XCUITEST)
    => /\ Strips(ARM64) <=> (~fac.on_device /\ X86_64 \in test_archs)
       /\ Strips(ARM64E) <=> (fac.device_arch = ARM64E /\ ARM64E \notin test_archs)

\* The plugin directory of the configured flavor, and how a generation that
\* ran to its end relocated the test bundle that was at path old before.
PlugInsDir ==
  IF fac'.test_type = XCUITEST
  THEN Join(Join(fac'.test_root_dir, fac'.test_name \o "-Runner.app"), "PlugIns")
  ELSE Join(fac'.app_under_test_dir, "PlugIns")
Relocates ==
  /\ last'.op = "GenerateXctestrun" /\ last'.err = NoneStr /\ log' # <<>>
  /\ fac'.test_type \in {XCUITEST, XCTEST}
CopiedFrom(old, new) ==
  /\ \E i \in 1..Len(log') :
       log'[i].op = "copytree" /\ log'[i].src = old /\ log'[i].path = new
  /\ \A i \in 1..Len(log') : log'[i].op = "move" => log'[i].src # old
  /\ Exists(fs', old)
MovedFrom(old, new) ==
  /\ \E i \in 1..Len(log') :
       log'[i].op = "move" /\ log'[i].src = old /\ log'[i].path = new
  /\ ~Exists(fs', old)
StayedAt(old) ==
  /\ \A i \in 1..Len(log') :
       log'[i].op \in {"move", "copytree"} => log'[i].src # old
  /\ Exists(fs', old)

InterruptedInPipeline ==
  /\ last'.op = "GenerateXctestrun" /\ last'.err # NoneStr
  /\ fac'.work_dir # NoPath /\ ~fac'.delete_work_dir
  /\ \E i \in 1..Len(log') : IsPipelineCall(log'[i])
  /\ \A i \in 1..Len(log') : log'[i].op # "write_plist"
                               \/ Basename(log'[i].path) # "test.xctestrun"
\* A GenerateXctestrun call of a Factory without accessor, on a caller's
\* working root that holds a test root without descriptor file.
OnPartialTestRoot ==
  /\ last'.op = "GenerateXctestrun"
  /\ ~fac.xctestrun_obj
  /\ fac.work_dir # NoPath /\ ~fac.delete_work_dir
  /\ Exists(fs, Join(fac.work_dir, "TEST_ROOT"))
  /\ ~Exists(fs, DescriptorPath(fac.work_dir))

\* C20, as stated: a GenerateXctestrun call on a caller's working root that
\* an interrupted generation left with a partial test root hits the cache:
\* it returns an accessor and runs no pipeline.
C20_PartialTestRootHitsCache ==
  [][OnPartialTestRoot => (last'.hit /\ last'.err = NoneStr /\ log' = <<>>)]_vars

\* C20, amended: a generation on a caller's working root that raises in its
\* pipeline leaves the test root with the relocated application on disk and
\* no descriptor file in it; a later GenerateXctestrun call on that working
\* root misses the cache and runs the generation again: it returns an
\* accessor only after a pipeline call, and it makes no operation only
\* when its first one, the move of an application that is gone, raises.
C20_PartialTestRootMissesCache ==
  [][/\ InterruptedInPipeline
          => /\ Exists(fs', fac'.test_root_dir)
             /\ ~Exists(fs', DescriptorPath(fac'.work_dir))
             /\ fac'.test_type # LOGIC_TEST
                  => Exists(fs', Join(fac'.test_root_dir, AppName))
     /\ OnPartialTestRoot
          => /\ ~last'.hit
             /\ log' = <<>> => (last'.err = "OSError" /\ ~Exists(fs, fac.app_under_test_dir))
             /\ last'.err = NoneStr => \E i \in 1..Len(log') : IsPipelineCall(log'[i])]_vars
\* A Factory whose generation on the caller's working root raised in the
\* pipeline was asked again: the call found the application the first one
\* had relocated, removed it, and raised.
C20_Witness ==
  /\ last.op = "GenerateXctestrun" /\ ~last.hit /\ last.err # NoneStr
  /\ fac.work_dir = WorkDir /\ ~fac.delete_work_dir
  /\ fac.app_under_test_dir = Join(fac.test_root_dir, AppName)
  /\ \E i \in Steps : log[i].op = "rmtree" /\ log[i].path = fac.app_under_test_dir
  /\ ~Exists(fs, DescriptorPath(WorkDir))

\* C21, as stated: Close deletes the working root when the GenerateXctestrun
\* call before it created that directory (it did not exist before the
\* call), and leaves in place a caller's working root that existed before
\* the call.
CreatedWorkDir ==
  \E i \in Steps : log[i].op \in {"mkdir", "mkdtemp"} /\ log[i].path = fac.work_dir
C21_CloseDeletesTheWorkDirItCreated ==
  [][(last'.op = "Close" /\ last.op = "GenerateXctestrun")
       => /\ CreatedWorkDir => ~Exists(fs', fac.work_dir)
          /\ (~CreatedWorkDir /\ fac.arg_work_dir # NoPath /\ Exists(fs, fac.work_dir))
               => Exists(fs', fac.work_dir)]_vars

\* C22: a flavor the accessor holds, supplied at construction or inferred
\* by an earlier read, is never changed by any call and is what every read
\* of test_type returns, whatever happened to UITargetAppPath in between;
\* a read on an accessor that holds none returns UI-driven if
\* UITargetAppPath is present at that moment and host-bundled if not, and
\* keeps it; no call but a read (and Run, which reads) infers, a read
\* writes nothing to the file, and logic-only is never inferred.
C22_TestTypeLazyAndCached ==
  [][/\ acc.test_type # NoneStr => acc'.test_type = acc.test_type
     /\ last'.op \notin {"test_type", "Run"} => acc'.test_type = acc.test_type
     /\ last'.op = "test_type"
          => /\ last'.ret = {acc'.test_type}
             /\ docs' = docs
             /\ acc.test_type = NoneStr
                  => acc'.test_type =
                       IF HasXctestrunField(AccFields, "UITargetAppPath")
                       THEN XCUITEST ELSE XCTEST]_vars
\* The accessor of a cache hit, which was given no flavor: test_type was
\* read and returned UI-driven although UITargetAppPath had been deleted
\* from the file since the first read.
C22_Witness ==
  /\ last.op = "test_type" /\ last.ret = {XCUITEST}
  /\ acc.aut_bundle_id = NoneStr /\ fac.test_type = XCUITEST
  /\ ~HasXctestrunField(AccFields, "UITargetAppPath")
  /\ ncalls > 0

\* C23: Run adds DYLD_FALLBACK_LIBRARY_PATH to EnvironmentVariables exactly
\* when the toolchain version is at least 1100, the sdk is the simulator,
\* an OS version is given and its number is below 1220; the variable is
\* merged into the map (every variable set before is still there, every
\* other field is unchanged) and written before the executor is invoked;
\* in every other case the file is unchanged; Run returns the exit code the
\* executor returned.
C23_RunInjectsFallbackLibsBeforeExecuting ==
  [][last'.op = "Run"
       => LET sdk == last'.args[1]
              os_version == last'.args[2]
              must == /\ xcode' >= 1100 /\ sdk = IPHONESIMULATOR
                      /\ os_version \notin {NoneStr, ""}
                      /\ os_version \in {"9.3", "12.1"}
              new_env_var == [DYLD_FALLBACK_LIBRARY_PATH |-> Swift5FallbackLibsDir]
              E == {i \in 1..Len(log') : log'[i].op = "Execute"}
              W == {i \in 1..Len(log') : log'[i].op = "SetTestEnvVars"}
          IN /\ Cardinality(E) = 1
             /\ \A i \in E : last'.ret = {log'[i].identity} /\ i = Len(log')
             /\ W # {} <=> must
             /\ \A w \in W, e \in E : w < e
             /\ IF must
                THEN MergedAt(AccFields, NewAccFields, "EnvironmentVariables", new_env_var)
                ELSE docs' = docs]_vars
\* Run on a simulator of OS 12.1 under toolchain 1100 added the variable to
\* a map that held a variable a setter had put there.
C23_Witness ==
  /\ last.op = "Run" /\ xcode = 1100 /\ last.args = <<IPHONESIMULATOR, "12.1">>
  /\ DOMAIN EnvOf(AccFields, "EnvironmentVariables") = {"A", "DYLD_FALLBACK_LIBRARY_PATH"}

\* C24: in a UI-driven generation on the device target that has relocated
\* the test bundle, a failure of EnableUIFileSharing does not end the
\* generation: the provisioning profile is copied, the entitlements file
\* written, the frameworks copied, the runner app, the test bundle and the
\* application signed, the descriptor written and an accessor returned;
\* a failing signature or identity lookup raises, and whenever the
\* generation raises in the pipeline no descriptor file is written and no
\* accessor is returned.
BundleInRunner ==
  \E i \in Steps :
    /\ log[i].op \in {"move", "copytree"}
    /\ log[i].path = Join(Join(RunnerApp, "PlugIns"), TestBundleName)
DescriptorWritten ==
  \E i \in Steps : log[i].op = "write_plist" /\ Basename(log[i].path) = "test.xctestrun"
ArgSetters == {"SetTestArgs", "SetAppUnderTestArgs"}
ListFieldsHolding(d, args) == {k \in DOMAIN d.lists : d.lists[k] = args}
C25_ArgumentSettersDoNotOverwrite ==
  [][(/\ ncalls = 1 /\ last.op \in ArgSetters /\ last.args # <<>>
      /\ last'.op \in ArgSetters \ {last.op} /\ last'.args # <<>>)
       => /\ ListFieldsHolding(NewAccFields, last'.args) \ DOMAIN AccFields.lists # {}
          /\ \E k1 \in ListFieldsHolding(NewAccFields, last.args),
                k2 \in ListFieldsHolding(NewAccFields, last'.args) : k1 # k2]_vars

\* C26, as stated: a host-bundled generation that starts with the
\* application and the test bundle both on disk, the bundle possibly inside
\* the application's PlugIns directory, leaves the test bundle at
\* <relocated application>/PlugIns/<basename>, whether or not a later step
\* fails; when it runs to its end TestBundlePath names that place; and it
\* removes no entry it is about to replace unless the source of the move is
\* still there.
C26_HostBundledKeepsTheTestBundle ==
  [][(/\ last'.op = "GenerateXctestrun"
      /\ \E i \in 1..Len(log') : IsPipelineCall(log'[i])
      /\ fac.test_type = XCTEST /\ ~fac.xctestrun_obj
      /\ fac.app_under_test_dir = AppPath
      /\ Exists(fs, fac.app_under_test_dir) /\ Exists(fs, fac.test_bundle_dir))
       => LET new == Join(Join(Join(fac'.test_root_dir, AppName), "PlugIns"),
                          Basename(fac.test_bundle_dir))
          IN /\ Exists(fs', new)
             /\ last'.err = NoneStr
                  => /\ fac'.test_bundle_dir = new
                     /\ NewAccFields.paths["TestBundlePath"]
                          = ReplaceInPath(new, fac'.test_root_dir, TESTROOT_RELATIVE_PATH)
             /\ \A i \in 1..Len(log') :
                  (log'[i].op = "rmtree" /\ log'[i].path = new)
                    => \E j \in (i + 1)..Len(log') :
                         log'[j].op = "move" /\ log'[j].path = new]_vars

\* The first GenerateXctestrun of a Factory constructed like fac, but with
\* signing options opts, on the same disk with the same collaborators.
RunWithOptions(opts, fault) ==
  GenerateXctestrun(
    MachineOf(fs, docs,
              FactoryInit(fac.app_under_test_dir, fac.test_bundle_dir, fac.sdk,
                          fac.device_arch, fac.test_type, opts, fac.arg_work_dir),
              acc),
    xcode, test_archs, fault, TmpDir)

\* C27: on the simulator target the signing options have no effect: the
\* first GenerateXctestrun of a Factory and that of a Factory constructed
\* with any other signing options, all else equal, make the same sequence of
\* filesystem operations, leave the same disk and the same descriptor field
\* map, and end alike.
C27_SigningOptionsHaveNoEffectOnSimulator ==
  [][(/\ last'.op = "GenerateXctestrun" /\ last.op = "Construct"
      /\ fac.sdk = IPHONESIMULATOR)
       => \A opts \in SUBSET {PROFILE_KEY, FILE_SHARING_KEY} :
            LET m == RunWithOptions(opts, last'.fault)
            IN /\ m.log = log'
               /\ m.fs = fs'
               /\ m.docs = docs'
               /\ m.err = last'.err
               /\ m.f.xctestrun_dict = fac'.xctestrun_dict]_vars
\* A simulator Factory that was given both signing options generated a
\* UI-driven descriptor.
C27_Witness ==
  /\ Generated /\ fac.sdk = IPHONESIMULATOR /\ fac.test_type = XCUITEST
  /\ fac.arg_signing_options = {PROFILE_KEY, FILE_SHARING_KEY}
  /\ FlagSet(AccFields, "IsUITestBundle")

====
